---- MODULE Spec2Model ----
(***************************************************************************)
(* A model of the PChain consensus core: the validator set with its        *)
(* accum-based proposer selection, commit verification over a signer       *)
(* bitmap, and the validator diff (types/validator_set.go); and, for one   *)
(* height, the round state machine of the correct validators with the      *)
(* BLS aggregates they accept, and the fast-sync loop (poolRoutine).       *)
(***************************************************************************)
EXTENDS Integers, Sequences, FiniteSets, TLC

\* ---------------------------------------------------------------- bounds
MaxAddr == 2        \* validator addresses are 1..MaxAddr
MaxTimes == 2       \* IncrementAccum is called with times in 1..MaxTimes
MaxOps == 2         \* IncrementAccum calls plus validator changes in one behaviour
MaxChanges == 1     \* length of the change list given to UpdateValidators
MaxHeight == 2      \* heights of commits are 1..MaxHeight

Addresses == 1..MaxAddr
InitPowers == {10, 30}          \* voting powers of the genesis validators
ChangePowers == {-1, 0, 10}     \* powers carried by validator changes

\* valSet, ret, nops: a validator set, the last call made on it with its
\* result, and the number of writing calls made.
\* hs, rp, bc, gp: the Handshaker of crash recovery, the consensus state
\* replaying its write-ahead log, the blockchain reactor during fast sync,
\* and a gossip routine of the consensus reactor with its peer.
\* cs, proposals, aggrs, sync: the consensus state of every correct validator
\* at the height being decided, the proposals and the aggregates correct
\* proposers have broadcast, and the block a fast-syncing node has saved at
\* that height.
VARIABLES valSet, ret, nops, cs, proposals, aggrs, sync, hs, rp, bc, gp, hst, ex, svc,
          ccdb, chains
vars == <<valSet, ret, nops, cs, proposals, aggrs, sync, hs, rp, bc, gp, hst, ex, svc,
         ccdb, chains>>

\* ------------------------------------------------------------ validators
\* types.Validator; the public key is identified with the address it hashes to.
NewValidator(pubKey, votingPower) ==
    [Address |-> pubKey, VotingPower |-> votingPower, Accum |-> 0]

\* A variant of CompareAccum that gives a tie to the larger address; the
\* tie-break of C5 does not survive it.
CompareAccumLargerAddress(v, other) ==
    IF v.Accum > other.Accum THEN v
    ELSE IF v.Accum < other.Accum THEN other
    ELSE IF v.Address > other.Address THEN v
    ELSE other

\* Returns the one with higher Accum; equal accum: the smaller address.
CompareAccum(v, other) ==
    IF v.Accum > other.Accum THEN v
    ELSE IF v.Accum < other.Accum THEN other
    ELSE IF v.Address < other.Address THEN v
    ELSE other

\* accumComparable.Less: ac sorts first when it wins the comparison.
accumComparableLess(ac, other) ==
    CompareAccum(ac, other).Address = ac.Address

\* ------------------------------------------------------------- bit array
\* *cmn.BitArray: a nil pointer, or a fixed-width sequence of bits.
NilBitArray == [isNil |-> TRUE, Bits |-> <<>>]
NewBitArray(bits) == [isNil |-> FALSE, Bits |-> bits]
BitArraySize(bA) == IF bA.isNil THEN 0 ELSE Len(bA.Bits)
BitArrayGetIndex(bA, i) == bA.Bits[i + 1]

\* ---------------------------------------------------------- validator set
RECURSIVE SumPower(_, _)
SumPower(vals, n) ==
    IF n = 0 THEN 0 ELSE SumPower(vals, n - 1) + vals[n].VotingPower

RECURSIVE SumAccum(_, _)
SumAccum(vals, n) ==
    IF n = 0 THEN 0 ELSE SumAccum(vals, n - 1) + vals[n].Accum

Size(vs) == Len(vs.Validators)

\* TotalVotingPower fills the cache when it is nil (the empty set) and
\* returns it; CachedTotal is the validator set after the call.
CachedTotal(vs) ==
    IF vs.totalVotingPower = {}
    THEN [vs EXCEPT !.totalVotingPower = {SumPower(vs.Validators, Len(vs.Validators))}]
    ELSE vs

TotalVotingPower(vs) == CHOOSE t \in CachedTotal(vs).totalVotingPower : TRUE

\* findProposer: the loop over the validators from a nil proposer, {} here;
\* CompareAccum on a nil receiver returns the other validator.
RECURSIVE findProposer(_, _)
findProposer(vals, n) ==
    IF n = 0 THEN {}
    ELSE LET proposer == findProposer(vals, n - 1)
             val == vals[n]
         IN  IF proposer = {} THEN {val}
             ELSE LET p == CHOOSE v \in proposer : TRUE
                  IN  IF val.Address # p.Address THEN {CompareAccum(p, val)}
                      ELSE proposer

\* GetProposer: nil for the empty set; else the cached proposer, which is
\* found first when the cache is nil.  vs is the validator set after the
\* call and proposer the address of the copy returned.
GetProposer(vs) ==
    IF Len(vs.Validators) = 0 THEN [vs |-> vs, proposer |-> {}]
    ELSE LET found == {v.Address : v \in findProposer(vs.Validators,
                                                       Len(vs.Validators))}
             filled == IF vs.Proposer = {} THEN [vs EXCEPT !.Proposer = found]
                       ELSE vs
         IN  [vs |-> filled, proposer |-> filled.Proposer]

\* sort.Search(n, f): binary search for the smallest index in 0..n for which
\* f holds, f being  address <= Validators[i].Address.
RECURSIVE SearchLoop(_, _, _, _)
SearchLoop(vals, address, i, j) ==
    IF i < j
    THEN LET h == (i + j) \div 2
         IN IF ~(address <= vals[h + 1].Address)
            THEN SearchLoop(vals, address, h + 1, j)
            ELSE SearchLoop(vals, address, i, h)
    ELSE i

Search(vals, address) == SearchLoop(vals, address, 0, Len(vals))

HasAddress(vs, address) ==
    LET idx == Search(vs.Validators, address)
    IN idx < Len(vs.Validators) /\ vs.Validators[idx + 1].Address = address

\* GetByAddress: (index, copy of the validator), or found = FALSE for (0, nil).
GetByAddress(vs, address) ==
    LET idx == Search(vs.Validators, address)
    IN IF idx # Len(vs.Validators) /\ vs.Validators[idx + 1].Address = address
       THEN [found |-> TRUE, index |-> idx, val |-> vs.Validators[idx + 1]]
       ELSE [found |-> FALSE, index |-> 0, val |-> NewValidator(address, 0)]

\* The top of the heap ordered by accumComparable.Less (index into vals).
HeapPeek(vals) ==
    CHOOSE i \in DOMAIN vals :
        \A j \in DOMAIN vals \ {i} : accumComparableLess(vals[i], vals[j])

\* A variant of the second loop that debits the proposer's own voting power
\* instead of the total; the zero sum of C3 does not survive it.
RECURSIVE DecrementLoopOwnPower(_, _, _, _)
DecrementLoopOwnPower(vals, proposer, total, n) ==
    IF n = 0
    THEN [Validators |-> vals, Proposer |-> proposer]
    ELSE LET mostest == HeapPeek(vals)
         IN DecrementLoopOwnPower(
                [vals EXCEPT ![mostest].Accum = @ - vals[mostest].VotingPower],
                IF n = 1 THEN {vals[mostest].Address} ELSE proposer,
                total, n - 1)

\* The second loop of IncrementAccum: debit the validator with most accum
\* `n` more times; the last one debited becomes the proposer.
RECURSIVE DecrementLoop(_, _, _, _)
DecrementLoop(vals, proposer, total, n) ==
    IF n = 0
    THEN [Validators |-> vals, Proposer |-> proposer]
    ELSE LET mostest == HeapPeek(vals)
         IN DecrementLoop([vals EXCEPT ![mostest].Accum = @ - total],
                          IF n = 1 THEN {vals[mostest].Address} ELSE proposer,
                          total, n - 1)

\* IncrementAccum(times) on a non-empty set.
IncrementAccum(vs, times) ==
    LET added == [i \in DOMAIN vs.Validators |->
                    [vs.Validators[i] EXCEPT !.Accum = @ + vs.Validators[i].VotingPower * times]]
        total == TotalVotingPower(vs)
        done == DecrementLoop(added, vs.Proposer, total, times)
    IN [Validators |-> done.Validators,
        Proposer |-> done.Proposer,
        totalVotingPower |-> {total}]

\* sort.Sort(ValidatorsByAddress(validators)) as an insertion sort.
RECURSIVE InsertByAddress(_, _)
InsertByAddress(sorted, v) ==
    IF sorted = <<>> THEN <<v>>
    ELSE IF v.Address < Head(sorted).Address THEN <<v>> \o sorted
    ELSE <<Head(sorted)>> \o InsertByAddress(Tail(sorted), v)

RECURSIVE ValidatorsByAddress(_)
ValidatorsByAddress(vals) ==
    IF vals = <<>> THEN <<>>
    ELSE InsertByAddress(ValidatorsByAddress(Tail(vals)), Head(vals))

NewValidatorSet(vals) ==
    IncrementAccum([Validators |-> ValidatorsByAddress(vals),
                    Proposer |-> {},
                    totalVotingPower |-> {}], 1)

\* ToBytes: wire.WriteBinary writes the exported fields, Validators and
\* Proposer; the cached total is unexported and is not in the bytes.
ToBytes(vs) == [Validators |-> vs.Validators, Proposer |-> vs.Proposer]

\* Bytes that are no encoding of a validator set.
CorruptedBytes == [corrupted |-> TRUE]

\* ValidatorSet.FromBytes: wire.ReadBinary decodes into the receiver, whose
\* Validators and Proposer become those of the bytes; the cached total of
\* the receiver is left as it was.  Bytes that do not decode end in
\* PanicCrisis.
ValSetFromBytes(vs, b) ==
    IF b = CorruptedBytes THEN [vs |-> vs, err |-> "PanicCrisis"]
    ELSE [vs |-> [vs EXCEPT !.Validators = b.Validators,
                            !.Proposer = b.Proposer],
          err |-> ""]

\* The set after k round advances, each one a call of IncrementAccum(1).
RECURSIVE IncrementAccumEach(_, _)
IncrementAccumEach(vs, k) ==
    IF k = 0 THEN vs ELSE IncrementAccumEach(IncrementAccum(vs, 1), k - 1)

\* A variant of Add that appends the validator whatever its address; the
\* order of C12 does not survive it.
AddAtEnd(vs, val) ==
    IF \E i \in DOMAIN vs.Validators : vs.Validators[i].Address = val.Address
    THEN [vs |-> vs, ok |-> FALSE]
    ELSE [vs |-> [Validators |-> Append(vs.Validators, val),
                  Proposer |-> {}, totalVotingPower |-> {}],
          ok |-> TRUE]

\* A variant of Update that keeps the cached total and proposer; the cache
\* invariant of C11 does not survive it.
UpdateKeepCache(vs, val) ==
    LET same == GetByAddress(vs, val.Address)
    IN IF ~same.found
       THEN [vs |-> vs, ok |-> FALSE]
       ELSE [vs |-> [vs EXCEPT !.Validators[same.index + 1] = val], ok |-> TRUE]

\* Add / Update / Remove: [vs |-> the set afterwards, ok |-> the result].
Add(vs, val) ==
    LET idx == Search(vs.Validators, val.Address)
        n == Len(vs.Validators)
    IN IF idx = n
       THEN [vs |-> [Validators |-> Append(vs.Validators, val),
                     Proposer |-> {}, totalVotingPower |-> {}],
             ok |-> TRUE]
       ELSE IF vs.Validators[idx + 1].Address = val.Address
       THEN [vs |-> vs, ok |-> FALSE]
       ELSE [vs |-> [Validators |-> SubSeq(vs.Validators, 1, idx) \o <<val>>
                                     \o SubSeq(vs.Validators, idx + 1, n),
                     Proposer |-> {}, totalVotingPower |-> {}],
             ok |-> TRUE]

Update(vs, val) ==
    LET same == GetByAddress(vs, val.Address)
    IN IF ~same.found
       THEN [vs |-> vs, ok |-> FALSE]
       ELSE [vs |-> [Validators |-> [vs.Validators EXCEPT ![same.index + 1] = val],
                     Proposer |-> {}, totalVotingPower |-> {}],
             ok |-> TRUE]

Remove(vs, address) ==
    LET idx == Search(vs.Validators, address)
        n == Len(vs.Validators)
    IN IF idx = n \/ vs.Validators[idx + 1].Address # address
       THEN [vs |-> vs, ok |-> FALSE]
       ELSE [vs |-> [Validators |-> SubSeq(vs.Validators, 1, idx)
                                     \o SubSeq(vs.Validators, idx + 2, n),
                     Proposer |-> {}, totalVotingPower |-> {}],
             ok |-> TRUE]

\* AggrPubKey: nil for a nil or wrong-sized bitmap, else the aggregate of the
\* public keys whose bit is set (an aggregate key is the set of its keys).
AggrPubKey(vs, bitMap) ==
    IF bitMap.isNil THEN [isNil |-> TRUE, keys |-> {}]
    ELSE IF BitArraySize(bitMap) # Len(vs.Validators) THEN [isNil |-> TRUE, keys |-> {}]
    ELSE [isNil |-> FALSE,
          keys |-> {vs.Validators[i + 1].Address :
                       i \in {k \in 0..(BitArraySize(bitMap) - 1) : BitArrayGetIndex(bitMap, k)}}]

\* The loop of TalliedVotingPower: it adds validators[i].VotingPower for
\* every i below the bitmap size.
RECURSIVE TallyLoop(_, _, _)
TallyLoop(validators, bitMap, n) ==
    IF n = 0 THEN 0
    ELSE TallyLoop(validators, bitMap, n - 1) + validators[n].VotingPower

TalliedVotingPower(vs, bitMap) ==
    IF bitMap.isNil THEN [val |-> 0, err |-> "Invalid bitmap(nil)"]
    ELSE IF Size(vs) # BitArraySize(bitMap) THEN [val |-> 0, err |-> "Size is not equal"]
    ELSE [val |-> TallyLoop(vs.Validators, bitMap, BitArraySize(bitMap)), err |-> ""]

\* Canonical sign bytes of a vote, and BLS verification: an aggregate
\* signature verifies under an aggregate key exactly when it was made by
\* those keys over those bytes.
VoteTypePrevote == "prevote"
VoteTypePrecommit == "precommit"
\* A type byte that is neither, as a peer can put into a message.
VoteTypeInvalid == "0x03"

\* types.IsVoteTypeValid.
IsVoteTypeValid(type) == type \in {VoteTypePrevote, VoteTypePrecommit}

\* What a call leaves that panicked instead of returning.
Panicked == [panic |-> TRUE]
IsPanic(r) == "panic" \in DOMAIN r
SignBytes(vote) == vote
VerifyBytes(pubKey, msg, sig) == sig.signers = pubKey.keys /\ sig.msg = msg

NilCommit ==
    [isNil |-> TRUE, BitArray |-> NilBitArray, Height |-> 0, Round |-> 0, BlockID |-> 0,
     SignAggr |-> [signers |-> {},
                   msg |-> [BlockID |-> 0, Height |-> 0, Round |-> 0, Type |-> VoteTypePrecommit]]]

\* A variant of the quorum without the final + 1; the amended C6 does not
\* survive it.
QuorumTwoThirds(total) == (total * 2) \div 3

\* floor(2 * total / 3) + 1, as VerifyCommit computes it.
Quorum(total) == (total * 2) \div 3 + 1

\* A variant of VerifyCommit without the height comparison; C9 does not
\* survive it.
VerifyCommitAnyHeight(vs, blockID, height, commit) ==
    LET none == [err |-> "", quorum |-> 0, tallied |-> 0]
    IN IF commit.isNil THEN [none EXCEPT !.err = "Invalid commit(nil)"]
       ELSE IF Size(vs) # BitArraySize(commit.BitArray)
       THEN [none EXCEPT !.err = "wrong set size"]
       ELSE LET pubKey == AggrPubKey(vs, commit.BitArray)
                vote == [BlockID |-> commit.BlockID, Height |-> commit.Height,
                         Round |-> commit.Round, Type |-> VoteTypePrecommit]
            IN IF pubKey.isNil THEN [none EXCEPT !.err = "panic"]
               ELSE IF ~VerifyBytes(pubKey, SignBytes(vote), commit.SignAggr)
               THEN [none EXCEPT !.err = "wrong Signature"]
               ELSE LET tallied == TalliedVotingPower(vs, commit.BitArray)
                    IN IF tallied.err # "" THEN [none EXCEPT !.err = tallied.err]
                       ELSE IF vs.totalVotingPower = {} THEN [none EXCEPT !.err = "panic"]
                       ELSE LET quorum == Quorum(CHOOSE t \in vs.totalVotingPower : TRUE)
                            IN IF tallied.val >= quorum
                               THEN [err |-> "", quorum |-> quorum, tallied |-> tallied.val]
                               ELSE [err |-> "insufficient voting power",
                                     quorum |-> quorum, tallied |-> tallied.val]

\* VerifyCommit: err = "" when the commit is accepted.  The blockID argument
\* is not read by the code.
VerifyCommit(vs, blockID, height, commit) ==
    LET none == [err |-> "", quorum |-> 0, tallied |-> 0]
    IN IF commit.isNil THEN [none EXCEPT !.err = "Invalid commit(nil)"]
       ELSE IF Size(vs) # BitArraySize(commit.BitArray)
       THEN [none EXCEPT !.err = "wrong set size"]
       ELSE IF height # commit.Height THEN [none EXCEPT !.err = "wrong height"]
       ELSE LET pubKey == AggrPubKey(vs, commit.BitArray)
                vote == [BlockID |-> commit.BlockID, Height |-> commit.Height,
                         Round |-> commit.Round, Type |-> VoteTypePrecommit]
            IN IF pubKey.isNil THEN [none EXCEPT !.err = "panic"]
               ELSE IF ~VerifyBytes(pubKey, SignBytes(vote), commit.SignAggr)
               THEN [none EXCEPT !.err = "wrong Signature"]
               ELSE LET tallied == TalliedVotingPower(vs, commit.BitArray)
                    IN IF tallied.err # "" THEN [none EXCEPT !.err = tallied.err]
                       ELSE IF vs.totalVotingPower = {} THEN [none EXCEPT !.err = "panic"]
                       ELSE LET quorum == Quorum(CHOOSE t \in vs.totalVotingPower : TRUE)
                            IN IF tallied.val >= quorum
                               THEN [err |-> "", quorum |-> quorum, tallied |-> tallied.val]
                               ELSE [err |-> "insufficient voting power",
                                     quorum |-> quorum, tallied |-> tallied.val]

\* UpdateValidators: applies the changes in order and stops at the first
\* error.  A change is [PubKey, Power]; a PubKey outside Addresses stands
\* for bytes that do not decode to a public key.
RECURSIVE UpdateValidators(_, _)
UpdateValidators(validators, changedValidators) ==
    IF changedValidators = <<>> THEN [vs |-> validators, err |-> ""]
    ELSE LET v == Head(changedValidators)
             got == GetByAddress(validators, v.PubKey)
         IN IF v.PubKey \notin Addresses THEN [vs |-> validators, err |-> "pubkey"]
            ELSE IF v.Power < 0 THEN [vs |-> validators, err |-> "overflows int64"]
            ELSE IF ~got.found
            THEN LET added == Add(validators, NewValidator(v.PubKey, v.Power))
                 IN IF ~added.ok THEN [vs |-> validators, err |-> "Failed to add"]
                    ELSE UpdateValidators(added.vs, Tail(changedValidators))
            ELSE IF v.Power = 0
            THEN LET removed == Remove(validators, v.PubKey)
                 IN IF ~removed.ok THEN [vs |-> validators, err |-> "Failed to remove"]
                    ELSE UpdateValidators(removed.vs, Tail(changedValidators))
            ELSE LET updated == Update(validators, [got.val EXCEPT !.VotingPower = v.Power])
                 IN IF ~updated.ok THEN [vs |-> validators, err |-> "Failed to update"]
                    ELSE UpdateValidators(updated.vs, Tail(changedValidators))

\* ------------------------------------------------------------ the inputs
\* Genesis validator lists: distinct addresses in any order.
GenesisLists ==
    {vals \in UNION {[1..n -> {NewValidator(a, p) : a \in Addresses, p \in InitPowers}] :
                        n \in 1..MaxAddr} :
        \A i, j \in DOMAIN vals : i # j => vals[i].Address # vals[j].Address}

\* Bitmaps one bit shorter, as wide as, and one bit wider than the set.
BitArraysFor(vs) ==
    {NilBitArray} \cup
    {NewBitArray(b) : b \in UNION {[1..n -> BOOLEAN] :
                                     n \in {m \in (Size(vs) - 1)..(Size(vs) + 1) : m >= 0}}}

BitSigners(vs, bitMap) ==
    {vs.Validators[i].Address :
        i \in {k \in 1..Len(vs.Validators) : k <= Len(bitMap.Bits) /\ bitMap.Bits[k]}}

\* Commits for BlockID 1 at round 0: signed by the validators of the bitmap
\* over the commit's own vote, or over a vote of another height.
CommitsFor(vs) ==
    {NilCommit} \cup
    {[isNil |-> FALSE, BitArray |-> bA, Height |-> h, Round |-> 0, BlockID |-> 1,
      SignAggr |-> [signers |-> BitSigners(vs, bA),
                    msg |-> [BlockID |-> 1, Height |-> sh, Round |-> 0,
                             Type |-> VoteTypePrecommit]]] :
        bA \in BitArraysFor(vs), h \in 1..MaxHeight, sh \in 1..MaxHeight}

Changes == [PubKey : 0..MaxAddr, Power : ChangePowers]
ChangeLists == UNION {[1..n -> Changes] : n \in 1..MaxChanges}

NoRet ==
    [op |-> "NewValidatorSet", times |-> 0, bitMap |-> NilBitArray, commit |-> NilCommit,
     height |-> 0, changes |-> <<>>, err |-> "", val |-> 0, quorum |-> 0, keys |-> {}]

\* ----------------------------------------------------------- the machine
\* The calls that write the set; TotalVotingPower and GetProposer write
\* its caches.  TalliedVotingPower, AggrPubKey and VerifyCommit only read
\* it: each is applied to every set the writing calls produce, and a
\* behaviour ends with the read.
Writes ==
    {"NewValidatorSet", "IncrementAccum", "UpdateValidators",
     "TotalVotingPower", "GetProposer", "FromBytes"}

Init ==
    /\ \E vals \in GenesisLists : valSet = NewValidatorSet(vals)
    /\ ret = NoRet
    /\ ccdb = <<>>
    /\ chains = <<>>
    /\ nops = 0
    /\ cs = <<>>
    /\ proposals = {}
    /\ aggrs = {}
    /\ sync = 0
    /\ hst = <<>>
    /\ ex = <<>>
    /\ svc = <<>>
    /\ hs = <<>>
    /\ rp = <<>>
    /\ bc = <<>>
    /\ gp = <<>>

\* valSet.IncrementAccum(times); on an empty set the heap's Peek yields nil
\* and the type assertion panics before anything is written.
DoIncrementAccum ==
    /\ ret.op \in Writes
    /\ nops < MaxOps
    /\ \E times \in 1..MaxTimes :
        IF Size(valSet) = 0
        THEN /\ ret' = [NoRet EXCEPT !.op = "IncrementAccum", !.times = times, !.err = "panic"]
             /\ valSet' = valSet
        ELSE /\ valSet' = IncrementAccum(valSet, times)
             /\ ret' = [NoRet EXCEPT !.op = "IncrementAccum", !.times = times]
    /\ nops' = nops + 1
    /\ UNCHANGED <<cs, proposals, aggrs, sync, hs, rp, bc, gp, hst, ex, svc, ccdb, chains>>

DoUpdateValidators ==
    /\ ret.op \in Writes
    /\ nops < MaxOps
    /\ \E changes \in ChangeLists :
        LET r == UpdateValidators(valSet, changes)
        IN /\ nops + Len(changes) <= MaxOps
           /\ valSet' = r.vs
           /\ ret' = [NoRet EXCEPT !.op = "UpdateValidators", !.changes = changes,
                                   !.err = r.err]
           /\ nops' = nops + Len(changes)
    /\ UNCHANGED <<cs, proposals, aggrs, sync, hs, rp, bc, gp, hst, ex, svc, ccdb, chains>>

\* valSet.FromBytes(b), b being bytes that ToBytes wrote of a validator
\* set, or corrupted bytes.
DoFromBytes ==
    /\ ret.op \in Writes
    /\ nops < MaxOps
    /\ \E b \in {ToBytes(NewValidatorSet(vals)) : vals \in GenesisLists}
                \cup {CorruptedBytes} :
        LET r == ValSetFromBytes(valSet, b)
        IN  /\ valSet' = r.vs
            /\ ret' = [NoRet EXCEPT !.op = "FromBytes", !.err = r.err]
    /\ nops' = nops + 1
    /\ UNCHANGED <<cs, proposals, aggrs, sync, hs, rp, bc, gp, hst, ex, svc, ccdb, chains>>

\* valSet.TotalVotingPower() on its own: it fills the cache when it is nil.
DoTotalVotingPower ==
    /\ ret.op \in Writes
    /\ valSet' = CachedTotal(valSet)
    /\ ret' = [NoRet EXCEPT !.op = "TotalVotingPower",
                            !.val = TotalVotingPower(valSet)]
    /\ UNCHANGED <<nops, cs, proposals, aggrs, sync, hs, rp, bc, gp, hst, ex, svc, ccdb, chains>>

\* valSet.GetProposer() on its own: it fills the cached proposer when it is
\* nil and the set is not empty.
DoGetProposer ==
    /\ ret.op \in Writes
    /\ LET r == GetProposer(valSet)
       IN  /\ valSet' = r.vs
           /\ ret' = [NoRet EXCEPT !.op = "GetProposer", !.keys = r.proposer,
                                   !.err = IF r.proposer = {} THEN "nil" ELSE ""]
    /\ UNCHANGED <<nops, cs, proposals, aggrs, sync, hs, rp, bc, gp, hst, ex, svc, ccdb, chains>>

DoTalliedVotingPower ==
    /\ ret.op \in Writes
    /\ \E bitMap \in BitArraysFor(valSet) :
        LET r == TalliedVotingPower(valSet, bitMap)
        IN ret' = [NoRet EXCEPT !.op = "TalliedVotingPower", !.bitMap = bitMap,
                                !.val = r.val, !.err = r.err]
    /\ UNCHANGED <<valSet, nops, cs, proposals, aggrs, sync, hs, rp, bc, gp, hst, ex, svc, ccdb, chains>>

DoAggrPubKey ==
    /\ ret.op \in Writes
    /\ \E bitMap \in BitArraysFor(valSet) :
        LET r == AggrPubKey(valSet, bitMap)
        IN ret' = [NoRet EXCEPT !.op = "AggrPubKey", !.bitMap = bitMap,
                                !.keys = r.keys, !.err = IF r.isNil THEN "nil" ELSE ""]
    /\ UNCHANGED <<valSet, nops, cs, proposals, aggrs, sync, hs, rp, bc, gp, hst, ex, svc, ccdb, chains>>

DoVerifyCommit ==
    /\ ret.op \in Writes
    /\ \E height \in 1..MaxHeight, commit \in CommitsFor(valSet) :
        LET r == VerifyCommit(valSet, 1, height, commit)
        IN ret' = [NoRet EXCEPT !.op = "VerifyCommit", !.commit = commit, !.height = height,
                                !.err = r.err, !.val = r.tallied, !.quorum = r.quorum]
    /\ UNCHANGED <<valSet, nops, cs, proposals, aggrs, sync, hs, rp, bc, gp, hst, ex, svc, ccdb, chains>>

Next ==
    \/ DoIncrementAccum
    \/ DoUpdateValidators
    \/ DoFromBytes
    \/ DoTotalVotingPower
    \/ DoGetProposer
    \/ DoTalliedVotingPower
    \/ DoAggrPubKey
    \/ DoVerifyCommit

Spec == Init /\ [][Next]_vars

\* The voting power held by the validators whose bit is set in the bitmap.
RECURSIVE SetBitPower(_, _, _)
SetBitPower(vs, bitMap, n) ==
    IF n = 0 THEN 0
    ELSE SetBitPower(vs, bitMap, n - 1)
         + (IF bitMap.Bits[n] THEN vs.Validators[n].VotingPower ELSE 0)

\* ============================================ consensus at one height
\* Three validators of power 10 decide height 1; validator 2, the proposer
\* of round 1, is Byzantine and holds a third of the voting power.  The
\* quorum is 21.
Correct == {1, 3}
Byzantine == {2}
MaxRound == 2                   \* rounds are 0..MaxRound
Rounds == 0..MaxRound
BlockIDs == {1, 2}              \* the candidate blocks
NilBlockID == 0                 \* the zero BlockID of a nil vote
ConsensusHeight == 1

ConsensusValidators ==
    [a \in 1..Cardinality(Correct \cup Byzantine) |-> NewValidator(a, 10)]

\* The proposer of a round: the set's Proposer after one IncrementAccum(1)
\* for every round advance.
ProposerOf(round) ==
    CHOOSE a \in IncrementAccumEach(valSet, round).Proposer : TRUE

\* types.MakeSignAggr: a SignAggr whose bitmap has one bit for each of the
\* numValidators validators and no bit set, no voting power summed and no
\* majority seen.
MakeSignAggr(height, round, mtype, numValidators, blockID, signAggr) ==
    [Height |-> height, Round |-> round, Type |-> mtype,
     NumValidators |-> numValidators, BlockID |-> blockID,
     BitArray |-> NewBitArray([i \in 1..numValidators |-> FALSE]),
     SignAggr |-> signAggr, sum |-> 0, maj23 |-> [isNil |-> TRUE]]

\* The aggregate of the signatures the validators of `signers` gave to one
\* vote: the BLS aggregate of their signatures, and a bitmap with the bit
\* of each signer set.
AggregateVotes(type, round, blockID, signers) ==
    LET sig == [signers |-> signers,
                msg |-> [BlockID |-> blockID, Height |-> ConsensusHeight,
                         Round |-> round, Type |-> type]]
        sa == MakeSignAggr(ConsensusHeight, round, type, Size(valSet), blockID, sig)
    IN  [sa EXCEPT !.BitArray =
            NewBitArray([i \in 1..Size(valSet) |->
                            valSet.Validators[i].Address \in signers])]

\* The correct validators that cast the vote (type, round, blockID).
Voters(type, round, blockID) ==
    {v \in Correct :
        blockID \in (IF type = VoteTypePrevote THEN cs[v].Prevotes[round]
                     ELSE cs[v].Precommits[round])}

\* The correct validators that cast any vote (type, round).
VotersAny(type, round) ==
    UNION {Voters(type, round, b) : b \in BlockIDs \cup {NilBlockID}}

PowerOf(addresses) ==
    SetBitPower(valSet,
                NewBitArray([i \in 1..Size(valSet) |->
                                valSet.Validators[i].Address \in addresses]),
                Size(valSet))

\* The aggregates that can be assembled for (type, round) with the help of
\* the Byzantine validators: their signatures over any vote, added to any of
\* the signatures correct validators have given to that same vote.
AssembledAggrs(type, round) ==
    {AggregateVotes(type, round, b, S) :
        <<b, S>> \in {bS \in (BlockIDs \cup {NilBlockID}) \X SUBSET (Correct \cup Byzantine) :
                        /\ bS[2] # {}
                        /\ bS[2] \cap Correct \subseteq Voters(type, round, bS[1])}}

\* Only the proposer of a round broadcasts its aggregates: a Byzantine
\* proposer broadcasts any it can assemble.
ByzantineAggrs(type, round) ==
    IF ProposerOf(round) \in Byzantine THEN AssembledAggrs(type, round) ELSE {}

\* A validator accepts a SignAggr iff it is for the current height, round
\* and vote type, its bitmap is as long as the validator set, the aggregate
\* signature verifies under the aggregate key of the bitmap, and the tallied
\* voting power reaches the quorum.
AcceptsSignAggr(v, type, sa) ==
    /\ sa.Height = ConsensusHeight /\ sa.Round = cs[v].Round /\ sa.Type = type
    /\ BitArraySize(sa.BitArray) = Size(valSet)
    /\ LET pubKey == AggrPubKey(valSet, sa.BitArray)
           vote == [BlockID |-> sa.BlockID, Height |-> sa.Height,
                    Round |-> sa.Round, Type |-> sa.Type]
       IN ~pubKey.isNil /\ VerifyBytes(pubKey, SignBytes(vote), sa.SignAggr)
    /\ LET tallied == TalliedVotingPower(valSet, sa.BitArray)
       IN tallied.err = "" /\ tallied.val >= Quorum(TotalVotingPower(valSet))

RoundStepPropose == "Propose"
RoundStepPrevote == "Prevote"
RoundStepPrecommit == "Precommit"
RoundStepCommit == "Commit"

\* The round state of a validator entering the height.  Prevotes and
\* Precommits are the votes it has cast, Observed the prevote aggregates it
\* has accepted (round, BlockID, and whether the validators of the set bits
\* hold the quorum).
NewRoundState ==
    [Round |-> 0, Step |-> RoundStepPropose,
     LockedBlock |-> NilBlockID, ValidBlock |-> NilBlockID,
     Prevotes |-> [r \in Rounds |-> {}], Precommits |-> [r \in Rounds |-> {}],
     Observed |-> {}, Decision |-> NilBlockID]

InitBFT ==
    /\ valSet = NewValidatorSet(ConsensusValidators)
    /\ ret = NoRet
    /\ ccdb = <<>>
    /\ chains = <<>>
    /\ nops = 0
    /\ cs = [v \in Correct |-> NewRoundState]
    /\ proposals = {}
    /\ aggrs = {}
    /\ sync = NilBlockID
    /\ hst = <<>>
    /\ ex = <<>>
    /\ svc = <<>>
    /\ hs = <<>>
    /\ rp = <<>>
    /\ bc = <<>>
    /\ gp = <<>>

\* The candidate block the block producer hands a proposer: block 1 to the
\* proposer of round 0, block 2 to any other.
Candidate(p) == IF p = ProposerOf(0) THEN 1 ELSE 2

\* EnterPropose of the round's proposer: it proposes its valid block again,
\* or a new candidate block.
DoPropose ==
    \E p \in Correct :
        /\ cs[p].Step = RoundStepPropose
        /\ ProposerOf(cs[p].Round) = p
        /\ \A pr \in proposals : pr.Round # cs[p].Round
        /\ LET b == IF cs[p].ValidBlock # NilBlockID THEN cs[p].ValidBlock
                     ELSE Candidate(p)
           IN proposals' = proposals \cup {[Round |-> cs[p].Round, BlockID |-> b]}
        /\ UNCHANGED <<valSet, ret, nops, cs, aggrs, sync, hs, rp, bc, gp, hst, ex, svc, ccdb, chains>>

\* The proposals a validator may have received for a round: the one a
\* correct proposer broadcast, or any block from a Byzantine proposer.
ProposalsFor(round) ==
    IF ProposerOf(round) \in Byzantine THEN BlockIDs
    ELSE {pr.BlockID : pr \in {q \in proposals : q.Round = round}}

\* EnterPrevote: the locked block; else the proposed block; else (the
\* propose timeout fired) nil.
DoPrevote ==
    \E v \in Correct :
        /\ cs[v].Step = RoundStepPropose
        /\ \E b \in ProposalsFor(cs[v].Round) \cup {NilBlockID} :
              LET vote == IF cs[v].LockedBlock # NilBlockID THEN cs[v].LockedBlock ELSE b
              IN cs' = [cs EXCEPT ![v].Step = RoundStepPrevote,
                                  ![v].Prevotes[cs[v].Round] = {vote}]
        /\ UNCHANGED <<valSet, ret, nops, proposals, aggrs, sync, hs, rp, bc, gp, hst, ex, svc, ccdb, chains>>

\* The proposer of a round builds and broadcasts a SignAggr, one for each
\* vote type, once the votes it holds for one BlockID reach the quorum.
DoAggregate ==
    \E p \in Correct, type \in {VoteTypePrevote, VoteTypePrecommit},
       b \in BlockIDs \cup {NilBlockID} :
        /\ ProposerOf(cs[p].Round) = p
        /\ \A sa \in aggrs : ~(sa.Type = type /\ sa.Round = cs[p].Round)
        /\ \E S \in SUBSET (Voters(type, cs[p].Round, b) \cup Byzantine) :
              /\ PowerOf(S) >= Quorum(TotalVotingPower(valSet))
              /\ aggrs' = aggrs \cup {AggregateVotes(type, cs[p].Round, b, S)}
        /\ UNCHANGED <<valSet, ret, nops, cs, proposals, sync, hs, rp, bc, gp, hst, ex, svc, ccdb, chains>>

\* EnterPrecommit on an accepted prevote SignAggr: for a block, lock it and
\* precommit it; for nil, unlock and precommit nil.
DoPrecommit ==
    \E v \in Correct :
        /\ cs[v].Step = RoundStepPrevote
        /\ \E sa \in aggrs \cup ByzantineAggrs(VoteTypePrevote, cs[v].Round) :
              /\ AcceptsSignAggr(v, VoteTypePrevote, sa)
              /\ cs' = [cs EXCEPT
                    ![v].Step = RoundStepPrecommit,
                    ![v].LockedBlock = sa.BlockID,
                    ![v].ValidBlock = IF sa.BlockID # NilBlockID THEN sa.BlockID ELSE @,
                    ![v].Precommits[cs[v].Round] = {sa.BlockID},
                    ![v].Observed = @ \cup
                        {[Round |-> sa.Round, BlockID |-> sa.BlockID,
                          TwoThirds |-> SetBitPower(valSet, sa.BitArray, Size(valSet))
                                          >= Quorum(TotalVotingPower(valSet))]}]
        /\ UNCHANGED <<valSet, ret, nops, proposals, aggrs, sync, hs, rp, bc, gp, hst, ex, svc, ccdb, chains>>

\* The prevote timeout after 2/3+ prevotes for anything: precommit nil and
\* leave the lock as it is.
DoPrevoteTimeout ==
    \E v \in Correct :
        /\ cs[v].Step = RoundStepPrevote
        /\ PowerOf(VotersAny(VoteTypePrevote, cs[v].Round) \cup Byzantine)
              >= Quorum(TotalVotingPower(valSet))
        /\ cs' = [cs EXCEPT ![v].Step = RoundStepPrecommit,
                            ![v].Precommits[cs[v].Round] = {NilBlockID}]
        /\ UNCHANGED <<valSet, ret, nops, proposals, aggrs, sync, hs, rp, bc, gp, hst, ex, svc, ccdb, chains>>

\* EnterCommit on an accepted precommit SignAggr for a block.
DoCommit ==
    \E v \in Correct :
        /\ cs[v].Step = RoundStepPrecommit
        /\ \E sa \in aggrs \cup ByzantineAggrs(VoteTypePrecommit, cs[v].Round) :
              /\ AcceptsSignAggr(v, VoteTypePrecommit, sa)
              /\ sa.BlockID # NilBlockID
              /\ cs' = [cs EXCEPT ![v].Step = RoundStepCommit,
                                  ![v].Decision = sa.BlockID]
        /\ UNCHANGED <<valSet, ret, nops, proposals, aggrs, sync, hs, rp, bc, gp, hst, ex, svc, ccdb, chains>>

\* The precommit timeout after 2/3+ precommits for anything: the next round
\* starts at Propose.
DoPrecommitTimeout ==
    \E v \in Correct :
        /\ cs[v].Step = RoundStepPrecommit
        /\ cs[v].Round < MaxRound
        /\ PowerOf(VotersAny(VoteTypePrecommit, cs[v].Round) \cup Byzantine)
              >= Quorum(TotalVotingPower(valSet))
        /\ cs' = [cs EXCEPT ![v].Step = RoundStepPropose, ![v].Round = @ + 1]
        /\ UNCHANGED <<valSet, ret, nops, proposals, aggrs, sync, hs, rp, bc, gp, hst, ex, svc, ccdb, chains>>

\* The commits a peer can serve with the block after ConsensusHeight: the
\* precommit aggregates broadcast or assembled for any round.
PeerCommits ==
    {[isNil |-> FALSE, BitArray |-> sa.BitArray, Height |-> sa.Height, Round |-> sa.Round,
      BlockID |-> sa.BlockID, SignAggr |-> sa.SignAggr] :
        sa \in {a \in aggrs : a.Type = VoteTypePrecommit}
               \cup UNION {AssembledAggrs(VoteTypePrecommit, r) : r \in Rounds}}

\* One pass of the fast-sync loop of poolRoutine at ConsensusHeight, by a
\* node that is behind validators that have all left the height: the first
\* block is saved when VerifyCommit accepts the second block's LastCommit;
\* otherwise the request is redone.
DoSync ==
    /\ sync = NilBlockID
    /\ \A v \in Correct : cs[v].Step = RoundStepCommit
    /\ \E first \in BlockIDs, commit \in PeerCommits :
          /\ VerifyCommit(valSet, first, ConsensusHeight, commit).err = ""
          /\ sync' = first
    /\ UNCHANGED <<valSet, ret, nops, cs, proposals, aggrs, hs, rp, bc, gp, hst, ex, svc, ccdb, chains>>

NextBFT ==
    \/ DoPropose
    \/ DoPrevote
    \/ DoAggregate
    \/ DoPrecommit
    \/ DoPrevoteTimeout
    \/ DoCommit
    \/ DoPrecommitTimeout
    \/ DoSync

SpecBFT == InitBFT /\ [][NextBFT]_vars

\* ============================================================ properties
AccumTotal(vs) == SumAccum(vs.Validators, Len(vs.Validators))

PowerTotal(vs) == SumPower(vs.Validators, Len(vs.Validators))

IncrementAccumStep == ret'.op = "IncrementAccum" /\ ret'.err = ""

\* The cached total is nil or the sum of the voting powers.
CacheConsistent(vs) == vs.totalVotingPower \in {{}, {PowerTotal(vs)}}

IncrementAccumAsRounds ==
    [][IncrementAccumStep =>
          LET each == IncrementAccumEach(valSet, ret'.times)
          IN /\ valSet'.Validators = each.Validators
             /\ valSet'.Proposer = each.Proposer]_vars

\* C5 -- after IncrementAccum(1) the Proposer is the validator whose accum
\* plus voting power was the largest, the smallest address among equals.
ProposerIsLargestAccum ==
    [][IncrementAccumStep /\ ret'.times = 1 =>
          \E p \in DOMAIN valSet.Validators :
              /\ valSet'.Proposer = {valSet.Validators[p].Address}
              /\ \A i \in DOMAIN valSet.Validators :
                    LET ap == valSet.Validators[p].Accum + valSet.Validators[p].VotingPower
                        ai == valSet.Validators[i].Accum + valSet.Validators[i].VotingPower
                    IN \/ ap > ai
                       \/ ap = ai /\ valSet.Validators[p].Address <= valSet.Validators[i].Address]_vars

\* C5 witness: IncrementAccum(1) chose, among validators tied for the largest
\* accum, a proposer that is not alone at the top.
ProposerIsLargestAccumWitness ==
    /\ ret.op = "IncrementAccum" /\ ret.err = "" /\ ret.times = 1
    /\ Size(valSet) >= 2
    /\ \E p, i \in DOMAIN valSet.Validators :
          /\ valSet.Proposer = {valSet.Validators[p].Address}
          /\ i # p
          /\ valSet.Validators[p].Accum + TotalVotingPower(valSet) - valSet.Validators[p].VotingPower
                = valSet.Validators[i].Accum - valSet.Validators[i].VotingPower

\* The blocks committed at ConsensusHeight: the decisions of the correct
\* validators and the block saved by the fast-syncing node.
Committed ==
    ({cs[v].Decision : v \in Correct} \cup {sync}) \ {NilBlockID}

\* The precommit aggregates for a block that exist with the quorum behind
\* their set bits.
QuorumCommits ==
    {sa \in aggrs \cup UNION {AssembledAggrs(VoteTypePrecommit, r) : r \in Rounds} :
        /\ sa.Type = VoteTypePrecommit
        /\ sa.BlockID # NilBlockID
        /\ SetBitPower(valSet, sa.BitArray, Size(valSet)) >= Quorum(PowerTotal(valSet))}

\* C1 -- Agreement: two correct nodes that commit a block at the height
\* commit the same BlockID, and once a precommit SignAggr of at least quorum
\* weight exists for a BlockID, no other BlockID is committed at the height
\* (the Byzantine validator holds no more than a third of the voting power).
Agreement ==
    /\ Cardinality(Committed) <= 1
    /\ \A sa \in QuorumCommits : Committed \subseteq {sa.BlockID}

\* C2 -- Lock invariant: a validator that precommitted a block B at round R
\* prevotes nothing but B at a later round R', unless it has observed, at a
\* round from R up to R' - 1, 2/3+ prevotes for another BlockID or for nil.
LockInvariant ==
    \A v \in Correct, R \in Rounds, R2 \in Rounds, B \in BlockIDs :
        (/\ R < R2
         /\ cs[v].Precommits[R] = {B}
         /\ cs[v].Prevotes[R2] # {}
         /\ cs[v].Prevotes[R2] # {B})
            => \E o \in cs[v].Observed :
                  o.TwoThirds /\ o.BlockID # B /\ R <= o.Round /\ o.Round < R2

\* VerifyCommit got as far as comparing the tally with the quorum.
ComparedWithQuorum ==
    ret.op = "VerifyCommit" /\ ret.err \in {"", "insufficient voting power"}

TallyIsSetBitPower ==
    ret.op = "TalliedVotingPower" =>
        IF ret.bitMap.isNil \/ BitArraySize(ret.bitMap) # Size(valSet)
        THEN ret.err # ""
        ELSE ret.err = "" /\ ret.val = SetBitPower(valSet, ret.bitMap, Size(valSet))

\* C8 -- VerifyCommit accepts a commit only if the validators of its set bits
\* hold at least quorum power: a commit with at least one signer that passes
\* the signature check with less than that is refused for insufficient
\* voting power.
VerifyCommitNeedsQuorum ==
    (/\ ret.op = "VerifyCommit"
     /\ ret.err \notin {"Invalid commit(nil)", "wrong set size", "wrong height",
                        "wrong Signature", "panic"}
     /\ ret.commit.SignAggr.signers # {}
     /\ SetBitPower(valSet, ret.commit.BitArray, Size(valSet))
            < Quorum(PowerTotal(valSet)))
        => ret.err = "insufficient voting power"

\* C9 -- VerifyCommit returns an error for a nil commit, a bitmap of the
\* wrong size and a commit of another height; AggrPubKey returns nil for a
\* nil or wrong-sized bitmap.
MalformedCommitRejected ==
    /\ (/\ ret.op = "VerifyCommit"
        /\ \/ ret.commit.isNil
           \/ BitArraySize(ret.commit.BitArray) # Size(valSet)
           \/ ret.commit.Height # ret.height)
          => ret.err \in {"Invalid commit(nil)", "wrong set size", "wrong height"}
    /\ (/\ ret.op = "AggrPubKey"
        /\ ret.bitMap.isNil \/ BitArraySize(ret.bitMap) # Size(valSet))
          => ret.err = "nil" /\ ret.keys = {}

\* C9 witness: a commit of the right size, signed by its bitmap's validators
\* over its own vote, was refused because it is for another height.
MalformedCommitWitness ==
    /\ ret.op = "VerifyCommit" /\ ret.err = "wrong height"
    /\ ~ret.commit.isNil
    /\ BitArraySize(ret.commit.BitArray) = Size(valSet)
    /\ Size(valSet) >= 2
    /\ ret.commit.SignAggr.signers # {}
    /\ ret.commit.SignAggr.msg.Height = ret.commit.Height

\* The address -> power table of a validator set, and the table the changes
\* are to produce: power 0 removes the address, any other power sets it.
PowerTable(vs) ==
    {<<vs.Validators[i].Address, vs.Validators[i].VotingPower>> : i \in DOMAIN vs.Validators}

RECURSIVE ChangedTable(_, _)
ChangedTable(table, changes) ==
    IF changes = <<>> THEN table
    ELSE LET c == Head(changes)
             rest == {e \in table : e[1] # c.PubKey}
         IN ChangedTable(IF c.Power = 0 THEN rest ELSE rest \cup {<<c.PubKey, c.Power>>},
                         Tail(changes))

\* C10 -- UpdateValidators removes the address of a change with power 0,
\* adds an absent address with the given power and replaces the power of a
\* present one; no validator with voting power 0 is in the set afterwards.
UpdateValidatorsApplies ==
    [][ret'.op = "UpdateValidators" /\ ret'.err = "" =>
          /\ PowerTable(valSet') = ChangedTable(PowerTable(valSet), ret'.changes)
          /\ \A i \in DOMAIN valSet'.Validators : valSet'.Validators[i].VotingPower # 0]_vars

StaleTotalReached ==
    /\ ret.op = "TotalVotingPower"
    /\ valSet.totalVotingPower # {}
    /\ TotalVotingPower(valSet) # PowerTotal(valSet)

\* C12 -- after NewValidatorSet on distinct addresses and any sequence of
\* Add, Update and Remove, Validators is strictly ascending by address, and
\* HasAddress and GetByAddress find exactly the addresses present.
SortedByAddress ==
    /\ \A i, j \in DOMAIN valSet.Validators :
          i < j => valSet.Validators[i].Address < valSet.Validators[j].Address
    /\ \A a \in 0..(MaxAddr + 1) :
          LET present == \E i \in DOMAIN valSet.Validators : valSet.Validators[i].Address = a
              got == GetByAddress(valSet, a)
          IN /\ HasAddress(valSet, a) <=> present
             /\ got.found <=> present
             /\ got.found => valSet.Validators[got.index + 1] = got.val /\ got.val.Address = a

\* C12 witness: the first call after NewValidatorSet added a validator in
\* front of the one already in the set.
SortedByAddressWitness ==
    /\ ret.op = "UpdateValidators" /\ ret.err = "" /\ nops = 1
    /\ Size(valSet) = 2
    /\ valSet.Validators[1].Address = ret.changes[1].PubKey
    /\ valSet.Validators[1].Accum = 0

\* ------------------------------------------------------------ handshake
\* Crash recovery: Handshaker.ReplayBlocks reconciles the height the app
\* reports with the heights of the block store and of the saved state.
MaxBlockHeight == 3
BlockHeights == 0..MaxBlockHeight
AppHashes == {"a", "b"}
NilAppHash == ""

\* The Handshaker with its store and state.  execd and applied list the
\* heights handed to sm.ExecCommitBlock and to State.ApplyBlock, in call
\* order; mockApp tells whether newMockProxyApp made the app connection
\* of the last block.  failAt, execHash and loadErr fix what the app and the state
\* database answer: the block at height failAt fails to execute (0: none
\* does), the app reports execHash after a block, and loadErr tells
\* whether the saved ABCI responses fail to load.
NewHandshaker(storeH, stateH, stateAppHash, failAt, execHash, loadErr) ==
    [storeH |-> storeH, stateH |-> stateH, stateAppHash |-> stateAppHash,
     nBlocks |-> 0, execd |-> <<>>, applied |-> <<>>, mockApp |-> FALSE,
     failAt |-> failAt, execHash |-> execHash, loadErr |-> loadErr]

HandshakeResult(h, hash, out) == [h |-> h, hash |-> hash, out |-> out]

\* sm.ExecCommitBlock: runs the block against the app and commits it there;
\* the state is neither validated nor changed.
ExecCommitBlock(h, i) ==
    [h |-> [h EXCEPT !.execd = Append(@, i)],
     appHash |-> IF i = h.failAt THEN NilAppHash ELSE h.execHash,
     err |-> i = h.failAt]

\* State.ApplyBlock: executes the block on the given app connection and
\* moves the state to the block's height with the hash the app committed.
ApplyBlock(h, i, hash) ==
    [h |-> IF i = h.failAt THEN [h EXCEPT !.applied = Append(@, i)]
           ELSE [h EXCEPT !.applied = Append(@, i), !.stateH = i,
                          !.stateAppHash = hash],
     err |-> i = h.failAt]

\* checkAppHash panics when the hash differs from the state's.
checkAppHashNever(h, appHash) == FALSE
checkAppHash(h, appHash) == h.stateAppHash # appHash

replayBlock(h, height, hash) ==
    LET r == ApplyBlock(h, height, hash)
    IN  IF r.err THEN HandshakeResult(r.h, NilAppHash, "error")
        ELSE HandshakeResult([r.h EXCEPT !.nBlocks = @ + 1],
                             r.h.stateAppHash, "return")

finalBlockAlwaysLess(storeBlockHeight, mutateState) == storeBlockHeight - 1
finalBlock(storeBlockHeight, mutateState) ==
    IF mutateState THEN storeBlockHeight - 1 ELSE storeBlockHeight

\* The loop of replayBlocks from height i on.
RECURSIVE replayLoop(_, _, _, _)
replayLoop(h, i, last, appHash) ==
    IF i > last THEN [h |-> h, appHash |-> appHash, err |-> FALSE]
    ELSE LET r == ExecCommitBlock(h, i)
         IN  IF r.err THEN [h |-> r.h, appHash |-> NilAppHash, err |-> TRUE]
             ELSE replayLoop([r.h EXCEPT !.nBlocks = @ + 1], i + 1, last,
                             r.appHash)

replayBlocks(h, appBlockHeight, storeBlockHeight, mutateState) ==
    LET l == replayLoop(h, appBlockHeight + 1,
                        finalBlock(storeBlockHeight, mutateState), NilAppHash)
    IN  IF l.err THEN HandshakeResult(l.h, NilAppHash, "error")
        ELSE IF mutateState
             THEN replayBlock(l.h, storeBlockHeight, l.h.execHash)
        ELSE IF checkAppHash(l.h, l.appHash)
             THEN HandshakeResult(l.h, NilAppHash, "panic")
        ELSE HandshakeResult(l.h, l.appHash, "return")

\* The edge cases ReplayBlocks handles first, in the order it tests them.
storeHeightCaseErrorNotPanic(storeBlockHeight, stateBlockHeight, appBlockHeight) ==
    IF storeBlockHeight = 0 THEN "empty"
    ELSE IF storeBlockHeight < appBlockHeight THEN "ErrAppBlockHeightTooHigh"
    ELSE IF storeBlockHeight < stateBlockHeight THEN "panic"
    ELSE IF storeBlockHeight > stateBlockHeight + 1
         THEN "ErrAppBlockHeightTooHigh"
    ELSE "replay"
\* The edge cases without the test of a store more than one block ahead
\* of the state.
storeHeightCaseNoUpperBound(storeBlockHeight, stateBlockHeight, appBlockHeight) ==
    IF storeBlockHeight = 0 THEN "empty"
    ELSE IF storeBlockHeight < appBlockHeight THEN "ErrAppBlockHeightTooHigh"
    ELSE IF storeBlockHeight < stateBlockHeight THEN "panic"
    ELSE "replay"
storeHeightCase(storeBlockHeight, stateBlockHeight, appBlockHeight) ==
    IF storeBlockHeight = 0 THEN "empty"
    ELSE IF storeBlockHeight < appBlockHeight THEN "ErrAppBlockHeightTooHigh"
    ELSE IF storeBlockHeight < stateBlockHeight THEN "panic"
    ELSE IF storeBlockHeight > stateBlockHeight + 1 THEN "panic"
    ELSE "replay"

ReplayBlocks(h, appHash, appBlockHeight) ==
    LET storeBlockHeight == h.storeH
        stateBlockHeight == h.stateH
        edge == storeHeightCase(storeBlockHeight, stateBlockHeight,
                                appBlockHeight)
        checked == IF checkAppHash(h, appHash)
                   THEN HandshakeResult(h, NilAppHash, "panic")
                   ELSE HandshakeResult(h, appHash, "return")
    IN  IF edge = "empty" THEN checked
        ELSE IF edge = "ErrAppBlockHeightTooHigh"
             THEN HandshakeResult(h, appHash, "ErrAppBlockHeightTooHigh")
        ELSE IF edge = "panic" THEN HandshakeResult(h, NilAppHash, "panic")
        ELSE IF storeBlockHeight = stateBlockHeight
             THEN IF appBlockHeight < storeBlockHeight
                  THEN replayBlocks(h, appBlockHeight, storeBlockHeight, FALSE)
                  ELSE IF appBlockHeight = storeBlockHeight THEN checked
                  ELSE HandshakeResult(h, NilAppHash, "Should never happen")
        ELSE IF storeBlockHeight = stateBlockHeight + 1
             THEN IF appBlockHeight < stateBlockHeight
                  THEN replayBlocks(h, appBlockHeight, storeBlockHeight, TRUE)
                  ELSE IF appBlockHeight = stateBlockHeight
                  THEN replayBlock(h, storeBlockHeight, h.execHash)
                  ELSE IF appBlockHeight = storeBlockHeight
                  THEN IF h.loadErr
                       THEN HandshakeResult(h, NilAppHash, "error")
                       ELSE replayBlock([h EXCEPT !.mockApp = TRUE],
                                        storeBlockHeight, appHash)
                  ELSE HandshakeResult(h, NilAppHash, "Should never happen")
        ELSE HandshakeResult(h, NilAppHash, "Should never happen")

\* hs: the Handshaker as loaded (pre) and as ReplayBlocks left it (h), the
\* height and hash the app reported, and how the call ended.
Handshakers ==
    { NewHandshaker(storeH, stateH, stateAppHash, failAt, execHash, loadErr) :
        storeH \in BlockHeights, stateH \in BlockHeights,
        stateAppHash \in AppHashes, failAt \in BlockHeights,
        execHash \in AppHashes, loadErr \in BOOLEAN }

InitHandshake ==
    /\ valSet = NewValidatorSet(ConsensusValidators)
    /\ ret = NoRet
    /\ ccdb = <<>>
    /\ chains = <<>>
    /\ nops = 0
    /\ cs = <<>>
    /\ proposals = {}
    /\ aggrs = {}
    /\ sync = 0
    /\ hst = <<>>
    /\ ex = <<>>
    /\ svc = <<>>
    /\ \E h \in Handshakers :
          hs = [pre |-> h, h |-> h, appH |-> 0, appHash |-> NilAppHash,
                out |-> "", hash |-> NilAppHash]
    /\ rp = <<>>
    /\ bc = <<>>
    /\ gp = <<>>

DoReplayBlocks ==
    /\ hs.out = ""
    /\ \E appBlockHeight \in BlockHeights, appHash \in AppHashes :
          LET r == ReplayBlocks(hs.h, appHash, appBlockHeight)
          IN  hs' = [pre |-> hs.h, h |-> r.h, appH |-> appBlockHeight,
                     appHash |-> appHash, out |-> r.out, hash |-> r.hash]
    /\ UNCHANGED <<valSet, ret, nops, cs, proposals, aggrs, sync, rp, bc, gp, hst, ex, svc, ccdb, chains>>

NextHandshake == DoReplayBlocks

SpecHandshake == InitHandshake /\ [][NextHandshake]_vars

\* The heights lo+1 .. hi in ascending order.
RECURSIVE HeightsAscending(_, _)
HeightsAscending(lo, hi) ==
    IF lo >= hi THEN <<>> ELSE Append(HeightsAscending(lo, hi - 1), hi)

\* C13 -- as stated: called with app height = store height = state height,
\* ReplayBlocks applies no block to the app or the state, leaves NBlocks
\* as it was and returns the app hash it was given without an error.
SyncedReturnsAppHash ==
    (hs.out # "" /\ hs.appH = hs.pre.storeH /\ hs.pre.storeH = hs.pre.stateH) =>
        /\ hs.h = hs.pre
        /\ hs.out = "return"
        /\ hs.hash = hs.appHash

\* C13 -- as the code has it: with the three heights equal ReplayBlocks
\* applies no block and leaves NBlocks as it was; it returns the app hash
\* it was given, without an error, when that hash equals the state's
\* AppHash, and panics in checkAppHash when the two differ.
SyncedChecksAppHash ==
    (hs.out # "" /\ hs.appH = hs.pre.storeH /\ hs.pre.storeH = hs.pre.stateH) =>
        /\ hs.h = hs.pre
        /\ IF hs.appHash = hs.pre.stateAppHash
           THEN hs.out = "return" /\ hs.hash = hs.appHash
           ELSE hs.out = "panic"

SyncedChecksAppHashWitness ==
    /\ hs.out = "panic"
    /\ hs.appH = 2 /\ hs.pre.storeH = 2 /\ hs.pre.stateH = 2
    /\ hs.appHash # hs.pre.stateAppHash
    /\ hs.h.nBlocks = 0

\* C14 -- as stated: with store height = state height and the app behind,
\* ReplayBlocks hands exactly the blocks app+1 .. store to ExecCommitBlock
\* in ascending order, applies none to the state, and NBlocks grows by
\* store - app.
ReplaysAllMissingBlocks ==
    (hs.out # "" /\ hs.pre.storeH = hs.pre.stateH /\ hs.appH < hs.pre.storeH) =>
        /\ hs.h.execd = HeightsAscending(hs.appH, hs.pre.storeH)
        /\ hs.h.applied = <<>>
        /\ hs.h.stateH = hs.pre.stateH
        /\ hs.h.stateAppHash = hs.pre.stateAppHash
        /\ hs.h.nBlocks = hs.pre.nBlocks + (hs.pre.storeH - hs.appH)

\* C14 -- as the code has it: the blocks go to ExecCommitBlock in ascending
\* order from app+1, up to the store height or up to the first block whose
\* execution fails, which ends the call with that error; NBlocks grows by
\* the number of blocks executed without error (store - app when none
\* fails) and the state is not touched.
ReplaysUntilError ==
    (hs.out # "" /\ hs.pre.storeH = hs.pre.stateH /\ hs.appH < hs.pre.storeH) =>
        LET failed == hs.pre.failAt > hs.appH /\ hs.pre.failAt <= hs.pre.storeH
            last == IF failed THEN hs.pre.failAt ELSE hs.pre.storeH
        IN  /\ hs.h.execd = HeightsAscending(hs.appH, last)
            /\ hs.h.applied = <<>>
            /\ hs.h.stateH = hs.pre.stateH
            /\ hs.h.stateAppHash = hs.pre.stateAppHash
            /\ hs.h.nBlocks = hs.pre.nBlocks + (last - hs.appH)
                                  - (IF failed THEN 1 ELSE 0)
            /\ failed <=> hs.out = "error"

ReplaysUntilErrorWitness ==
    /\ hs.out = "return"
    /\ hs.appH = 1 /\ hs.pre.storeH = 3 /\ hs.pre.stateH = 3
    /\ hs.h.execd = <<2, 3>>
    /\ hs.h.nBlocks = 2

\* C15 -- as stated: whenever the state is ahead of the store, or the store
\* more than one block ahead of the state, ReplayBlocks panics and replays
\* nothing.
BrokenHeightsPanic ==
    (/\ hs.out # ""
     /\ \/ hs.pre.stateH > hs.pre.storeH
        \/ hs.pre.storeH > hs.pre.stateH + 1) =>
        hs.out = "panic" /\ hs.h = hs.pre

\* C15 -- as the code has it: the two panics come after the tests for an
\* empty store and for an app ahead of the store.  With a store that is not
\* empty and an app that is not ahead of it, ReplayBlocks panics and
\* replays nothing whenever the state is ahead of the store or the store
\* more than one block ahead of the state.  With an empty store it replays
\* nothing and ends in checkAppHash: it returns the app hash it was given
\* when that is the state's AppHash and panics when the two differ.  With
\* the app ahead of a store that is not empty it replays nothing and
\* returns the app hash it was given with ErrAppBlockHeightTooHigh.  The
\* last two hold whatever the height of the state is.
BrokenHeightsPanicPastEdgeCases ==
    hs.out # "" =>
        /\ (/\ hs.pre.storeH # 0
            /\ hs.appH <= hs.pre.storeH
            /\ \/ hs.pre.stateH > hs.pre.storeH
               \/ hs.pre.storeH > hs.pre.stateH + 1) =>
              hs.out = "panic" /\ hs.h = hs.pre
        /\ hs.pre.storeH = 0 =>
              /\ hs.h = hs.pre
              /\ IF hs.appHash = hs.pre.stateAppHash
                 THEN hs.out = "return" /\ hs.hash = hs.appHash
                 ELSE hs.out = "panic"
        /\ (hs.pre.storeH # 0 /\ hs.pre.storeH < hs.appH) =>
              /\ hs.h = hs.pre
              /\ hs.out = "ErrAppBlockHeightTooHigh"
              /\ hs.hash = hs.appHash

BrokenHeightsPanicWitness ==
    /\ hs.out = "panic"
    /\ hs.pre.storeH = 3 /\ hs.pre.stateH = 1 /\ hs.appH = 1
    /\ hs.appHash = hs.pre.stateAppHash
    /\ hs.h = hs.pre

\* ------------------------------------------------------------ WAL replay
\* ConsensusState.catchupReplay: replays the write-ahead log lines written
\* since the last #ENDHEIGHT marker through readReplayMessage.
MaxLines == 2

\* What a WAL line decodes to: a meta line starting with '#' (or an empty
\* one), bytes that are not JSON, a round-step event, a message, a timeout,
\* a message of no known type; "ioerr" stands for a ReadLine that fails
\* with an error other than EOF at this position.
LineKinds == {"#", "json", "EventDataRoundState", "msgInfo", "timeoutInfo",
              "unknown", "ioerr"}
SearchResults == {"found", "notfound", "EOF", "err"}

RECURSIVE LinesUpTo(_)
LinesUpTo(n) ==
    IF n = 0 THEN {<<>>}
    ELSE LinesUpTo(n - 1) \cup
         { Append(l, k) : l \in { x \in LinesUpTo(n - 1) : Len(x) = n - 1 },
                          k \in LineKinds }

\* The part of ConsensusState that replay touches, with the WAL it reads:
\* endHeight is whether the WAL holds #ENDHEIGHT for the height replayed,
\* lastHeight and height what the searches for the previous #ENDHEIGHT and
\* for #HEIGHT answer, lines what follows the marker.  handled lists the
\* calls of handleMsg and handleTimeout with the replayMode they ran under.
NewReplayState(endHeight, lastHeight, height, lines) ==
    [pc |-> "start", replayMode |-> FALSE, endHeight |-> endHeight,
     lastHeight |-> lastHeight, height |-> height, lines |-> lines,
     pos |-> 1, handled |-> <<>>, out |-> ""]

\* ConsensusState.handleMsg and handleTimeout, as far as replay mode goes.
handleMsg(c) ==
    [c EXCEPT !.handled = Append(@, [call |-> "handleMsg",
                                     replayMode |-> c.replayMode])]
handleTimeout(c) ==
    [c EXCEPT !.handled = Append(@, [call |-> "handleTimeout",
                                     replayMode |-> c.replayMode])]

\* readReplayMessage(msgBytes, nil): no playback check is made as the
\* channel is nil.
readReplayMessage(c, line) ==
    IF line = "#" THEN [c |-> c, err |-> FALSE]
    ELSE IF line = "json" THEN [c |-> c, err |-> TRUE]
    ELSE IF line = "EventDataRoundState" THEN [c |-> c, err |-> FALSE]
    ELSE IF line = "msgInfo" THEN [c |-> handleMsg(c), err |-> FALSE]
    ELSE IF line = "timeoutInfo" THEN [c |-> handleTimeout(c), err |-> FALSE]
    ELSE [c |-> c, err |-> TRUE]

\* The function deferred at the top of catchupReplay, run at every return.
deferredNothing(c, out) == [c EXCEPT !.pc = "returned", !.out = out]
deferredReset(c, out) ==
    [c EXCEPT !.pc = "returned", !.out = out, !.replayMode = FALSE]

\* catchupReplay up to the replay loop: where the searches leave it.
catchupSearch(c) ==
    IF c.endHeight THEN "error"
    ELSE IF c.lastHeight = "EOF"
         THEN \* the search for #HEIGHT is made, and made again with the
              \* same answer when it did not find the marker
              IF c.height = "EOF" THEN "nil"
              ELSE IF c.height = "err" THEN "error"
              ELSE "loop"
    ELSE IF c.lastHeight = "err" THEN "error"
    ELSE IF c.lastHeight = "notfound"
         THEN IF c.height = "EOF" THEN "nil"
              ELSE IF c.height = "err" THEN "error"
              ELSE "loop"
    ELSE "loop"

ReplayStates ==
    { NewReplayState(endHeight, lastHeight, height, lines) :
        endHeight \in BOOLEAN, lastHeight \in SearchResults,
        height \in SearchResults, lines \in LinesUpTo(MaxLines) }

InitReplay ==
    /\ valSet = NewValidatorSet(ConsensusValidators)
    /\ ret = NoRet
    /\ ccdb = <<>>
    /\ chains = <<>>
    /\ nops = 0
    /\ cs = <<>>
    /\ proposals = {}
    /\ aggrs = {}
    /\ sync = 0
    /\ hst = <<>>
    /\ ex = <<>>
    /\ svc = <<>>
    /\ hs = <<>>
    /\ rp \in ReplayStates
    /\ bc = <<>>
    /\ gp = <<>>

\* catchupReplay from its entry to the first ReadLine.
DoCatchupReplay ==
    /\ rp.pc = "start"
    /\ LET c == [rp EXCEPT !.replayMode = TRUE]
           to == catchupSearch(c)
       IN  rp' = IF to = "loop" THEN [c EXCEPT !.pc = "loop"]
                 ELSE deferredReset(c, to)
    /\ UNCHANGED <<valSet, ret, nops, cs, proposals, aggrs, sync, hs, bc, gp, hst, ex, svc, ccdb, chains>>

\* One turn of the replay loop: ReadLine, then readReplayMessage.
DoReadLine ==
    /\ rp.pc = "loop"
    /\ rp' = IF rp.pos > Len(rp.lines) THEN deferredReset(rp, "nil")
             ELSE IF rp.lines[rp.pos] = "ioerr" THEN deferredReset(rp, "error")
             ELSE LET r == readReplayMessage(rp, rp.lines[rp.pos])
                  IN  IF r.err THEN deferredReset(r.c, "error")
                      ELSE [r.c EXCEPT !.pos = @ + 1]
    /\ UNCHANGED <<valSet, ret, nops, cs, proposals, aggrs, sync, hs, bc, gp, hst, ex, svc, ccdb, chains>>

NextReplay == DoCatchupReplay \/ DoReadLine

SpecReplay == InitReplay /\ [][NextReplay]_vars

\* C16 -- replay mode is on from before the first replayed message until
\* catchupReplay returns: every handleMsg and handleTimeout it triggers
\* runs with replayMode = TRUE, replayMode is TRUE throughout the replay
\* loop, and it is FALSE again once catchupReplay has returned, with nil
\* or with an error.
ReplayModeDuringCatchup ==
    /\ \A i \in DOMAIN rp.handled : rp.handled[i].replayMode
    /\ rp.pc = "loop" => rp.replayMode
    /\ rp.pc = "returned" => ~rp.replayMode

ReplayModeWitness ==
    /\ rp.pc = "returned" /\ rp.out = "error"
    /\ ~rp.replayMode
    /\ Len(rp.handled) = 1
    /\ rp.handled[1].call = "handleTimeout"
    /\ rp.lines = <<"timeoutInfo", "json">>

\* ------------------------------------------------------------ fast sync
\* The BlockchainReactor: OnStart, ReStartPool, Receive and the cases of
\* poolRoutine, syncing from peers whose blocks are signed by the three
\* validators of ConsensusValidators.
MaxPeerHeight == 2
SyncLoopTurns == 10

\* The LastCommit a served block can carry for height h: the commit of all
\* three validators for block 1, the commit for block 2 that validator 2
\* signed alone, and a commit for block 1 whose signature is over a vote of
\* another height.
SyncCommit(h, blockID, signers, signedHeight) ==
    [isNil |-> FALSE,
     BitArray |-> NewBitArray([i \in 1..Len(ConsensusValidators) |->
                                  ConsensusValidators[i].Address \in signers]),
     Height |-> h, Round |-> 0, BlockID |-> blockID,
     SignAggr |-> [signers |-> signers,
                   msg |-> [BlockID |-> blockID, Height |-> signedHeight,
                            Round |-> 0, Type |-> VoteTypePrecommit]]]

SyncCommits(h) ==
    IF h = 0 THEN {NilCommit}
    ELSE {SyncCommit(h, 1, Correct \cup Byzantine, h),
          SyncCommit(h, 2, Byzantine, h),
          SyncCommit(h, 1, Correct \cup Byzantine, h + 1)}

NoBlock == [Height |-> 0, ID |-> NilBlockID, LastCommit |-> NilCommit]

SyncBlocks(h) ==
    {[Height |-> h, ID |-> id, LastCommit |-> c] :
        id \in BlockIDs, c \in SyncCommits(h - 1)}

\* BlockPool: the height it syncs next, the greatest height a peer has
\* reported and the blocks received for the heights requested.
NewBlockPool(start) ==
    [started |-> FALSE, stopped |-> FALSE, height |-> start,
     maxPeerHeight |-> 0,
     blocks |-> [h \in 1..MaxPeerHeight |-> NoBlock]]

BlockAt(pool, h) == IF h \in DOMAIN pool.blocks THEN pool.blocks[h] ELSE NoBlock

PeekTwoBlocks(pool) ==
    [first |-> BlockAt(pool, pool.height), second |-> BlockAt(pool, pool.height + 1)]

PopRequest(pool) ==
    [pool EXCEPT !.blocks[pool.height] = NoBlock, !.height = @ + 1]

RedoRequest(pool, h) == [pool EXCEPT !.blocks[h] = NoBlock]

AddBlock(pool, block) ==
    IF /\ block.Height >= pool.height
       /\ block.Height <= pool.maxPeerHeight
       /\ BlockAt(pool, block.Height) = NoBlock
    THEN [pool EXCEPT !.blocks[block.Height] = block]
    ELSE pool

SetPeerHeight(pool, h) ==
    [pool EXCEPT !.maxPeerHeight = IF h > @ THEN h ELSE @]

\* BlockPool.RemovePeer: the peer is taken out of the pool.  The body is
\* not among the sources; the greatest height reported becomes max, that
\* of the peers left or the one before, and the blocks of the heights
\* lost, which the peer had delivered, are to be requested again.
RemovePeer(pool, max, lost) ==
    [pool EXCEPT !.maxPeerHeight = max,
                 !.blocks = [h \in DOMAIN pool.blocks |->
                                IF h \in lost THEN NoBlock ELSE pool.blocks[h]]]

\* BaseService.IsRunning of the pool.
PoolIsRunning(pool) == pool.started /\ ~pool.stopped

\* BaseService.Start of the pool: (false, nil) when it was started before
\* or has been stopped, the error of OnStart (startErr) with the started
\* flag put back, (true, nil) else.
PoolStart(pool, startErr) ==
    IF pool.started THEN [pool |-> pool, err |-> FALSE]
    ELSE IF pool.stopped
    THEN [pool |-> [pool EXCEPT !.started = TRUE], err |-> FALSE]
    ELSE IF startErr THEN [pool |-> pool, err |-> TRUE]
    ELSE [pool |-> [pool EXCEPT !.started = TRUE], err |-> FALSE]

\* BaseService.Stop of the pool.
PoolStop(pool) == [pool EXCEPT !.stopped = TRUE]

\* The pool is caught up when it has heard of a peer and the local height
\* is within one of the highest peer's.
IsCaughtUp(pool) ==
    pool.maxPeerHeight > 0 /\ pool.height >= pool.maxPeerHeight

\* The number of calls of ReStartPool and of RemovePeer in one behaviour.
MaxPoolCalls == 2

\* NewBlockchainReactor on an empty store.  routines are the poolRoutine
\* goroutines started so far, each with pc, the place it is at (select
\* while it waits in its select, the call it makes next inside a case,
\* exited or panicked), its loop counter i and the blocks first and second
\* it has peeked; restart is the call of ReStartPool under way with the
\* pool it has made, restarts the number of calls made; stop is the place
\* of BaseService.Stop.  switches lists the calls of SwitchToConsensus with
\* what IsCaughtUp answered at the call and the number of blocks saved by
\* then; last is the latest verification of a sync loop and the routine
\* that made it.
NoSync ==
    [first |-> NoBlock, commit |-> NilCommit, err |-> "", saved |-> FALSE,
     redone |-> FALSE, before |-> 0, after |-> 0, by |-> 0]

NoReStart == [pc |-> "idle", pool |-> NewBlockPool(1)]

NewBlockchainReactor(fastSync) ==
    [fastSync |-> fastSync, started |-> FALSE, routines |-> <<>>,
     restart |-> NoReStart, restarts |-> 0, removed |-> 0, stop |-> "none",
     pool |-> NewBlockPool(1), store |-> <<>>, applied |-> <<>>,
     switches |-> <<>>, last |-> NoSync]

StoreHeight(b) == Len(b.store)

\* go bcR.poolRoutine(): the routine waits in its select.
poolRoutine == [pc |-> "select", i |-> 0, first |-> NoBlock, second |-> NoBlock]

\* ConsensusReactor.SwitchToConsensus, as called by the blockchain reactor.
SwitchToConsensus(b) ==
    [b EXCEPT !.switches = Append(@, [caughtUp |-> IsCaughtUp(b.pool),
                                      poolRunning |-> PoolIsRunning(b.pool),
                                      saved |-> Len(b.store)])]

\* ReStartPool, one statement at a time: the results of the two IsRunning
\* calls are dropped and fastSync alone is tested; the new pool is made at
\* store.Height() + 1, put into bcR.pool and started, and when Start gave
\* no error another poolRoutine is started, on a pool that does not run
\* when it was stopped before Start.
ReStartPool(b, startErr) ==
    IF b.restart.pc = "idle"
    THEN IF b.fastSync
         THEN [b EXCEPT !.restarts = @ + 1,
                        !.restart = [pc |-> "SetPool",
                                     pool |-> NewBlockPool(StoreHeight(b) + 1)]]
         ELSE [b EXCEPT !.restarts = @ + 1]
    ELSE IF b.restart.pc = "SetPool"
    THEN [b EXCEPT !.pool = b.restart.pool,
                   !.restart = [NoReStart EXCEPT !.pc = "Start"]]
    ELSE LET start == PoolStart(b.pool, startErr)
         IN  IF start.err
             THEN [b EXCEPT !.pool = start.pool, !.restart = NoReStart]
             ELSE [b EXCEPT !.pool = start.pool,
                            !.routines = Append(@, poolRoutine),
                            !.restart = NoReStart]

SyncPcs ==
    {"PeekTwoBlocks", "VerifyCommit", "RedoRequest", "PopRequest",
     "SaveBlock", "ApplyBlock"}

\* The case trySyncTicker of the poolRoutine r, one call at a time: the
\* pool's lock is free between the calls, every call goes to the pool that
\* bcR.pool holds at the time, and applyErr is the error of ApplyBlock.
trySync(b, r, applyErr) ==
    LET rt == b.routines[r]
        two == PeekTwoBlocks(b.pool)
        verify == VerifyCommit(valSet, rt.first.ID, rt.first.Height,
                               rt.second.LastCommit)
        i == IF rt.pc = "select" THEN 0 ELSE rt.i
    IN  IF rt.pc \in {"select", "PeekTwoBlocks"}
        THEN IF two.first = NoBlock \/ two.second = NoBlock
             THEN [b EXCEPT !.routines[r] = poolRoutine]
             ELSE [b EXCEPT !.routines[r] =
                                [pc |-> "VerifyCommit", i |-> i,
                                 first |-> two.first, second |-> two.second]]
        ELSE IF rt.pc = "VerifyCommit"
        THEN [b EXCEPT !.routines[r].pc = IF verify.err # "" THEN "RedoRequest"
                                          ELSE "PopRequest",
                       !.last = [first |-> rt.first,
                                 commit |-> rt.second.LastCommit,
                                 err |-> verify.err, saved |-> FALSE,
                                 redone |-> FALSE, before |-> b.pool.height,
                                 after |-> b.pool.height, by |-> r]]
        ELSE IF rt.pc = "RedoRequest"
        THEN [b EXCEPT !.pool = RedoRequest(@, rt.first.Height),
                       !.last.redone = IF b.last.by = r THEN TRUE ELSE @,
                       !.routines[r] = poolRoutine]
        ELSE IF rt.pc = "PopRequest"
        THEN [b EXCEPT !.pool = PopRequest(@),
                       !.last.after = IF b.last.by = r
                                      THEN PopRequest(b.pool).height ELSE @,
                       !.routines[r].pc = "SaveBlock"]
        ELSE IF rt.pc = "SaveBlock"
        THEN [b EXCEPT !.store = Append(@, [block |-> rt.first,
                                            commit |-> rt.second.LastCommit]),
                       !.last.saved = IF b.last.by = r THEN TRUE ELSE @,
                       !.routines[r].pc = "ApplyBlock"]
        ELSE IF applyErr
        THEN [b EXCEPT !.routines[r].pc = "panicked"]
        ELSE [b EXCEPT !.applied = Append(@, rt.first.Height),
                       !.routines[r] =
                           IF rt.i + 1 < SyncLoopTurns
                           THEN [poolRoutine EXCEPT !.pc = "PeekTwoBlocks",
                                                    !.i = rt.i + 1]
                           ELSE poolRoutine]

\* The case switchToConsensusTicker of the poolRoutine r, one call at a
\* time.
switchToConsensus(b, r) ==
    IF b.routines[r].pc = "select"
    THEN IF IsCaughtUp(b.pool) THEN [b EXCEPT !.routines[r].pc = "Stop"] ELSE b
    ELSE IF b.routines[r].pc = "Stop"
    THEN [b EXCEPT !.pool = PoolStop(@),
                   !.routines[r].pc = "SwitchToConsensus"]
    ELSE [SwitchToConsensus(b) EXCEPT !.routines[r].pc = "exited"]

InitSync ==
    /\ valSet = NewValidatorSet(ConsensusValidators)
    /\ ret = NoRet
    /\ ccdb = <<>>
    /\ chains = <<>>
    /\ nops = 0
    /\ cs = <<>>
    /\ proposals = {}
    /\ aggrs = {}
    /\ sync = 0
    /\ hst = <<>>
    /\ ex = <<>>
    /\ svc = <<>>
    /\ hs = <<>>
    /\ rp = <<>>
    /\ \E fastSync \in BOOLEAN : bc = NewBlockchainReactor(fastSync)
    /\ gp = <<>>

\* BlockchainReactor.OnStart, inside BaseService.Start.
DoOnStart ==
    /\ ~bc.started /\ bc.stop = "none"
    /\ bc' = SwitchToConsensus([bc EXCEPT !.started = TRUE])
    /\ UNCHANGED <<valSet, ret, nops, cs, proposals, aggrs, sync, hs, rp, gp, hst, ex, svc, ccdb, chains>>

\* BlockchainReactor.ReStartPool: a call, on a reactor started or not and
\* whatever routines run, or the next statement of the call under way.
DoReStartPool ==
    /\ bc.restart.pc = "idle" => bc.restarts + bc.removed < MaxPoolCalls
    /\ \E startErr \in BOOLEAN :
          /\ startErr => /\ bc.restart.pc = "Start"
                         /\ ~bc.pool.started /\ ~bc.pool.stopped
          /\ bc' = ReStartPool(bc, startErr)
    /\ UNCHANGED <<valSet, ret, nops, cs, proposals, aggrs, sync, hs, rp, gp, hst, ex, svc, ccdb, chains>>

\* Receive of a bcStatusResponseMessage.
DoReceiveStatus ==
    /\ bc.started
    /\ \E h \in 1..MaxPeerHeight :
          /\ h > bc.pool.maxPeerHeight
          /\ bc' = [bc EXCEPT !.pool = SetPeerHeight(@, h)]
    /\ UNCHANGED <<valSet, ret, nops, cs, proposals, aggrs, sync, hs, rp, gp, hst, ex, svc, ccdb, chains>>

\* BlockchainReactor.RemovePeer: the switch has dropped a peer, which went
\* or was stopped by the timeoutsCh case of a poolRoutine.
DoRemovePeer ==
    /\ bc.started
    /\ bc.restarts + bc.removed < MaxPoolCalls
    /\ bc.pool.maxPeerHeight > 0
    /\ \E max \in 0..bc.pool.maxPeerHeight,
          lost \in SUBSET {h \in DOMAIN bc.pool.blocks :
                              bc.pool.blocks[h] # NoBlock} :
          /\ bc' = [bc EXCEPT !.pool = RemovePeer(@, max, lost),
                               !.removed = @ + 1]
    /\ UNCHANGED <<valSet, ret, nops, cs, proposals, aggrs, sync, hs, rp, gp, hst, ex, svc, ccdb, chains>>

\* Receive of a bcBlockResponseMessage.
DoReceiveBlock ==
    /\ bc.started
    /\ \E h \in 1..MaxPeerHeight : \E block \in SyncBlocks(h) :
          /\ AddBlock(bc.pool, block) # bc.pool
          /\ bc' = [bc EXCEPT !.pool = AddBlock(@, block)]
    /\ UNCHANGED <<valSet, ret, nops, cs, proposals, aggrs, sync, hs, rp, gp, hst, ex, svc, ccdb, chains>>

\* poolRoutine, case trySyncTicker: the ticker of a routine fires, or the
\* routine makes the next call of its sync loop.
DoTrySync ==
    /\ \E r \in DOMAIN bc.routines, applyErr \in BOOLEAN :
          /\ bc.routines[r].pc \in {"select"} \cup SyncPcs
          /\ applyErr => bc.routines[r].pc = "ApplyBlock"
          /\ bc' = trySync(bc, r, applyErr)
    /\ UNCHANGED <<valSet, ret, nops, cs, proposals, aggrs, sync, hs, rp, gp, hst, ex, svc, ccdb, chains>>

\* poolRoutine, case switchToConsensusTicker: IsCaughtUp, then pool.Stop,
\* then SwitchToConsensus.
DoSwitchToConsensus ==
    /\ \E r \in DOMAIN bc.routines :
          /\ bc.routines[r].pc \in {"select", "Stop", "SwitchToConsensus"}
          /\ bc' = switchToConsensus(bc, r)
    /\ UNCHANGED <<valSet, ret, nops, cs, proposals, aggrs, sync, hs, rp, gp, hst, ex, svc, ccdb, chains>>

\* BlockchainReactor.OnStop, inside BaseService.Stop: it stops the pool.
DoOnStop ==
    /\ bc.stop = "none"
    /\ bc' = [bc EXCEPT !.pool = PoolStop(@), !.stop = "OnStop"]
    /\ UNCHANGED <<valSet, ret, nops, cs, proposals, aggrs, sync, hs, rp, gp, hst, ex, svc, ccdb, chains>>

\* BaseService.Stop closes bcR.Quit once OnStop has returned.
DoCloseQuit ==
    /\ bc.stop = "OnStop"
    /\ bc' = [bc EXCEPT !.stop = "closed"]
    /\ UNCHANGED <<valSet, ret, nops, cs, proposals, aggrs, sync, hs, rp, gp, hst, ex, svc, ccdb, chains>>

\* poolRoutine, case bcR.Quit, of a routine.
DoQuit ==
    /\ bc.stop = "closed"
    /\ \E r \in DOMAIN bc.routines :
          /\ bc.routines[r].pc = "select"
          /\ bc' = [bc EXCEPT !.routines[r].pc = "exited"]
    /\ UNCHANGED <<valSet, ret, nops, cs, proposals, aggrs, sync, hs, rp, gp, hst, ex, svc, ccdb, chains>>

NextSync ==
    \/ DoOnStart
    \/ DoReStartPool
    \/ DoReceiveStatus
    \/ DoRemovePeer
    \/ DoReceiveBlock
    \/ DoTrySync
    \/ DoSwitchToConsensus
    \/ DoOnStop
    \/ DoCloseQuit
    \/ DoQuit

SpecSync == InitSync /\ [][NextSync]_vars

\* C17 -- fast sync never stores an unverified block: every block in the
\* store was saved with a commit for its own BlockID and height that
\* VerifyCommit accepts, and a verification that failed saved nothing,
\* redid the request for the first block and left the sync height as it
\* was.
SyncStoresOnlyVerified ==
    /\ \A i \in DOMAIN bc.store :
          /\ bc.store[i].commit.BlockID = bc.store[i].block.ID
          /\ bc.store[i].commit.Height = bc.store[i].block.Height
          /\ VerifyCommit(valSet, bc.store[i].block.ID, bc.store[i].block.Height,
                          bc.store[i].commit).err = ""
    /\ (bc.last.err # "" /\ bc.routines[bc.last.by].pc # "RedoRequest") =>
          /\ ~bc.last.saved /\ bc.last.redone /\ bc.last.after = bc.last.before
          /\ StoreHeight(bc) = bc.last.before - 1

\* C18 -- with fast sync enabled SwitchToConsensus is called at most once,
\* only when the pool reports it is caught up, with the pool stopped, and
\* no block is saved by the sync loop afterwards.
HandoffOnceWhenCaughtUp ==
    bc.fastSync =>
        /\ Len(bc.switches) <= 1
        /\ \A i \in DOMAIN bc.switches :
              /\ bc.switches[i].caughtUp
              /\ ~bc.switches[i].poolRunning
              /\ bc.switches[i].saved = Len(bc.store)
        /\ bc.switches # <<>> => ~PoolIsRunning(bc.pool)

\* ------------------------------------------------------------ gossip
\* The four per-peer routines of the consensus reactor
\* (gossipBlockPartSetRoutine, gossipDataRoutine, gossipVotesRoutine and
\* queryMaj23Routine), one action per routine that takes one step of its
\* loop at a time, next to the NewRoundStep messages of the peer and the
\* changes of the proposer.
GossipHeight == 3
GossipValidators == 2
GossipParts == 2

NodeKey == "node"
PeerKey == "peer"
PeerKeys == {NodeKey, PeerKey, "other"}

RoundStepNewHeight == "NewHeight"
\* The zero value of RoundStepType, which is below every step.
RoundStepZero == "RoundStepType(0)"
StepRank ==
    [st \in {RoundStepZero, RoundStepNewHeight, RoundStepPropose,
             RoundStepPrevote, RoundStepPrecommit, RoundStepCommit} |->
        IF st = RoundStepZero THEN 0
        ELSE IF st = RoundStepNewHeight THEN 1
        ELSE IF st = RoundStepPropose THEN 3
        ELSE IF st = RoundStepPrevote THEN 4
        ELSE IF st = RoundStepPrecommit THEN 6
        ELSE 8]

AllBits(n, v) == NewBitArray([i \in 1..n |-> v])

\* BitArray.Sub: the bits set in bA and not in o; nil when either is nil.
BitArraySub(bA, o) ==
    IF bA.isNil \/ o.isNil THEN NilBitArray
    ELSE NewBitArray([i \in 1..Len(bA.Bits) |->
                         bA.Bits[i] /\ ~(i <= Len(o.Bits) /\ o.Bits[i])])

\* BitArray.PickRandom: the indexes it can return, counted from 0.
PickRandom(bA) ==
    IF bA.isNil THEN {} ELSE {i - 1 : i \in {k \in 1..Len(bA.Bits) : bA.Bits[k]}}

BitArraySetIndex(bA, i, v) ==
    IF bA.isNil \/ i + 1 > Len(bA.Bits) THEN bA
    ELSE [bA EXCEPT !.Bits[i + 1] = v]

NoPartSetHeader == [Total |-> 0, Hash |-> ""]
NoProposal == [isNil |-> TRUE]
NoPartSet == [isNil |-> TRUE]
NoVoteSet == [isNil |-> TRUE]

\* PartSet.HasHeader.
HasHeader(parts, header) == ~parts.isNil /\ parts.header = header

\* A vote set of the local round state.  It is a commit when it is a set
\* of precommits holding every vote.
VoteSet(height, round, type, bits) ==
    [isNil |-> FALSE, Height |-> height, Round |-> round, Type |-> type,
     BitArray |-> NewBitArray(bits)]

VoteSetSize(votes) == IF votes.isNil THEN 0 ELSE Len(votes.BitArray.Bits)

VoteSetIsCommit(votes) ==
    /\ ~votes.isNil
    /\ votes.Type = VoteTypePrecommit
    /\ \A i \in DOMAIN votes.BitArray.Bits : votes.BitArray.Bits[i]

\* NewPeerState: the literal names Round, ProposalPOLRound, LastCommitRound
\* and CatchupCommitRound; every other field has its zero value.  The
\* bitmaps are pointers: CatchupCommitIsPrecommits says that CatchupCommit
\* and Precommits point to one BitArray, which a write through either
\* field then changes.
NewPeerState ==
    [Height |-> 0, Round |-> -1, Step |-> RoundStepZero,
     Proposal |-> FALSE, ProposalBlockPartsHeader |-> NoPartSetHeader,
     ProposalBlockParts |-> NilBitArray, ProposalPOLRound |-> -1,
     ProposalPOL |-> NilBitArray, Prevotes |-> NilBitArray,
     Precommits |-> NilBitArray, LastCommitRound |-> -1,
     LastCommit |-> NilBitArray, CatchupCommitRound |-> -1,
     CatchupCommit |-> NilBitArray, PrevoteMaj23SignAggr |-> FALSE,
     PrecommitMaj23SignAggr |-> FALSE, CatchupCommitIsPrecommits |-> FALSE]

\* A write to the BitArray a field of the peer state points to.
SetBitArray(ps, field, bA) ==
    IF ps.CatchupCommitIsPrecommits /\ field \in {"Precommits", "CatchupCommit"}
    THEN [ps EXCEPT !.Precommits = bA, !.CatchupCommit = bA]
    ELSE [ps EXCEPT ![field] = bA]

SetHasProposal(ps, proposal) ==
    IF ps.Height # proposal.Height \/ ps.Round # proposal.Round THEN ps
    ELSE IF ps.Proposal THEN ps
    ELSE [ps EXCEPT !.Proposal = TRUE,
                    !.ProposalBlockPartsHeader = proposal.BlockPartsHeader,
                    !.ProposalBlockParts =
                        AllBits(proposal.BlockPartsHeader.Total, FALSE),
                    !.ProposalPOLRound = proposal.POLRound,
                    !.ProposalPOL = NilBitArray,
                    !.PrevoteMaj23SignAggr = FALSE,
                    !.PrecommitMaj23SignAggr = FALSE]

SetHasProposalBlockPart(ps, height, round, index) ==
    IF ps.Height # height \/ ps.Round # round THEN ps
    ELSE [ps EXCEPT !.ProposalBlockParts = BitArraySetIndex(@, index, TRUE)]

\* getVoteBitArray names the field of the peer state that holds the votes
\* asked for, "" when there is none; it panics on a type that is neither
\* prevote nor precommit, before it looks at the peer state.
getVoteBitArray(ps, height, round, type) ==
    IF ~IsVoteTypeValid(type) THEN "PanicSanity"
    ELSE IF ps.Height = height
    THEN IF ps.Round = round
         THEN IF type = VoteTypePrevote THEN "Prevotes" ELSE "Precommits"
         ELSE IF ps.CatchupCommitRound = round
         THEN IF type = VoteTypePrevote THEN "" ELSE "CatchupCommit"
         ELSE IF ps.ProposalPOLRound = round
         THEN IF type = VoteTypePrevote THEN "ProposalPOL" ELSE ""
         ELSE ""
    ELSE IF ps.Height = height + 1
    THEN IF ps.LastCommitRound = round /\ type = VoteTypePrecommit
         THEN "LastCommit" ELSE ""
    ELSE ""

ensureCatchupCommitRound(ps, height, round, numValidators) ==
    IF ps.Height # height THEN ps
    ELSE IF ps.CatchupCommitRound = round THEN ps
    ELSE [ps EXCEPT !.CatchupCommitRound = round,
                    !.CatchupCommit = IF round = ps.Round THEN ps.Precommits
                                      ELSE AllBits(numValidators, FALSE),
                    !.CatchupCommitIsPrecommits =
                        round = ps.Round /\ ~ps.Precommits.isNil]

ensureVoteBitArrays(ps, height, numValidators) ==
    LET fresh(bA) == IF bA.isNil THEN AllBits(numValidators, FALSE) ELSE bA
    IN  IF ps.Height = height
        THEN [ps EXCEPT !.Prevotes = fresh(@), !.Precommits = fresh(@),
                        !.CatchupCommit = fresh(@), !.ProposalPOL = fresh(@)]
        ELSE IF ps.Height = height + 1
        THEN [ps EXCEPT !.LastCommit = fresh(@)]
        ELSE ps

\* PickVoteToSend: the outcomes it can have, the peer state it leaves and
\* the index of the vote picked (-1: none); panic marks the outcome of a
\* panic of getVoteBitArray.
PickVoteToSend(ps, votes) ==
    IF VoteSetSize(votes) = 0 THEN {[ps |-> ps, index |-> -1]}
    ELSE LET size == VoteSetSize(votes)
             ps1 == IF VoteSetIsCommit(votes)
                    THEN ensureCatchupCommitRound(ps, votes.Height,
                                                  votes.Round, size)
                    ELSE ps
             ps2 == ensureVoteBitArrays(ps1, votes.Height, size)
             field == getVoteBitArray(ps2, votes.Height, votes.Round, votes.Type)
         IN  IF field = "PanicSanity"
             THEN {[ps |-> ps2, index |-> -1, panic |-> TRUE]}
             ELSE IF field = "" THEN {[ps |-> ps2, index |-> -1]}
             ELSE LET picks == PickRandom(BitArraySub(votes.BitArray, ps2[field]))
                  IN  IF picks = {} THEN {[ps |-> ps2, index |-> -1]}
                      ELSE {[ps |-> SetBitArray(ps2, field,
                                        BitArraySetIndex(ps2[field], i, TRUE)),
                             index |-> i] : i \in picks}

\* The locals of a routine inside a turn of its loop: the snapshot prs of
\* the peer state, the ProposerPeerKey it has read, the messages it has
\* handed to peer.Send with what Send answered, whether it has changed the
\* peer state, whether it has slept and the index of the part it picked.
NoLocals ==
    [prs |-> NewPeerState, key |-> "", sent |-> <<>>, wrote |-> FALSE,
     slept |-> FALSE, index |-> -1]

\* GetRoundState of the peer state: of the copy it returns the model keeps
\* the fields the routine reads afterwards.
GetRoundState(ps, fields) ==
    [f \in DOMAIN NewPeerState |-> IF f \in fields THEN ps[f]
                                   ELSE NewPeerState[f]]

\* What a step of a routine leaves: the peer state, the statement the
\* routine makes next and its locals.  The locks are free between two
\* steps; a Send, which blocks, and a Sleep touch nothing shared and are
\* part of the step they follow.
Turn(ps, pc, loc) == [ps |-> ps, pc |-> pc, loc |-> loc]

\* time.Sleep(peerGossipSleepDuration) and
\* time.Sleep(peerQueryMaj23SleepDuration) in a turn.
Sleep(loc) == [loc EXCEPT !.slept = TRUE]

\* continue OUTER_LOOP.
Continue(ps, loc) == Turn(ps, "IsRunning", loc)

\* peer.IsRunning() and conR.IsRunning() at the top of the loop.
PeerAndReactorRunningAlways(g) == TRUE
PeerAndReactorRunning(g) == g.peerRunning /\ g.conRRunning

\* PickSendSignAggr.
PickSendSignAggr(ps, loc, signAggr) ==
    {[ps |-> ps,
      loc |-> [loc EXCEPT !.sent = Append(@, [msg |-> "Maj23SignAggr",
                                              signAggr |-> signAggr,
                                              ok |-> ok])],
      ok |-> ok] : ok \in BOOLEAN}

\* PickSendVote: PickVoteToSend under the lock of the peer state, then Send.
PickSendVote(ps, loc, votes) ==
    UNION {IF IsPanic(pick)
           THEN {[ps |-> pick.ps, loc |-> loc, ok |-> FALSE, panic |-> TRUE]}
           ELSE IF pick.index = -1
           THEN {[ps |-> pick.ps, loc |-> loc, ok |-> FALSE]}
           ELSE {[ps |-> pick.ps,
                  loc |-> [loc EXCEPT !.sent =
                              Append(@, [msg |-> "Vote", Height |-> votes.Height,
                                         Round |-> votes.Round,
                                         Type |-> votes.Type,
                                         index |-> pick.index, ok |-> ok])],
                  ok |-> ok] : ok \in BOOLEAN} :
           pick \in PickVoteToSend(ps, votes)}

\* HeightVoteSet.Prevotes and Precommits of the local round state.
RoundPrevotes(rs, round) ==
    IF round \in DOMAIN rs.Prevotes THEN rs.Prevotes[round] ELSE NoVoteSet
RoundPrecommits(rs, round) ==
    IF round \in DOMAIN rs.Precommits THEN rs.Precommits[round] ELSE NoVoteSet

\* The test gossipVotesRoutine makes before it sends: the peer is the
\* proposer.
peerIsProposerAlways(g) == TRUE
peerIsProposer(g) == g.peerKey = g.ProposerPeerKey

\* The test gossipBlockPartSetRoutine makes before it sends: this node is
\* the proposer.
nodeIsProposerAlways(g) == TRUE
nodeIsProposer(g) == g.nodeKey = g.ProposerPeerKey

\* The sends of gossipVotesRoutine in their order, and the test of each on
\* the snapshots rs and prs.
VoteStages ==
    <<"NewHeightLastCommit", "Prevotes", "Precommits", "POLPrevotes",
      "LastCommit", "CatchupCommit">>

VoteStageEnabled(rs, prs, stage) ==
    IF stage = "NewHeightLastCommit"
    THEN rs.Height = prs.Height /\ prs.Step = RoundStepNewHeight
    ELSE IF stage = "Prevotes"
    THEN /\ rs.Height = prs.Height
         /\ StepRank[prs.Step] <= StepRank[RoundStepPrevote]
         /\ prs.Round # -1 /\ prs.Round <= rs.Round
    ELSE IF stage = "Precommits"
    THEN /\ rs.Height = prs.Height
         /\ StepRank[prs.Step] <= StepRank[RoundStepPrecommit]
         /\ prs.Round # -1 /\ prs.Round <= rs.Round
    ELSE IF stage = "POLPrevotes"
    THEN /\ rs.Height = prs.Height
         /\ prs.ProposalPOLRound # -1
         /\ ~RoundPrevotes(rs, prs.ProposalPOLRound).isNil
    ELSE IF stage = "LastCommit"
    THEN prs.Height # 0 /\ rs.Height = prs.Height + 1
    ELSE prs.Height # 0 /\ rs.Height >= prs.Height + 2

\* The send of a stage, on the peer state as it is by then.
VoteStageSend(g, loc, stage) ==
    LET rs == g.rs
        prs == loc.prs
    IN  IF stage \in {"NewHeightLastCommit", "LastCommit"}
        THEN PickSendSignAggr(g.ps, loc, rs.LastCommit)
        ELSE IF stage = "Prevotes"
        THEN PickSendVote(g.ps, loc, RoundPrevotes(rs, prs.Round))
        ELSE IF stage = "Precommits"
        THEN PickSendVote(g.ps, loc, RoundPrecommits(rs, prs.Round))
        ELSE IF stage = "POLPrevotes"
        THEN PickSendVote(g.ps, loc, RoundPrevotes(rs, prs.ProposalPOLRound))
        ELSE PickSendSignAggr(g.ps, loc, [Height |-> prs.Height,
                                          Type |-> VoteTypePrecommit])

\* The routine goes on to the first stage from the k-th on whose test
\* holds, and sleeps when there is none.
NextVoteStage(g, ps, loc, k) ==
    LET js == {j \in k..Len(VoteStages) :
                  VoteStageEnabled(g.rs, loc.prs, VoteStages[j])}
    IN  IF js = {} THEN Continue(ps, Sleep(loc))
        ELSE Turn(ps, VoteStages[CHOOSE j \in js : \A i \in js : j <= i], loc)

\* One step of gossipVotesRoutine.  The sleeping counter, which only
\* throttles a log line, is left out.
gossipVotes(g) ==
    LET pc == g.routines["gossipVotesRoutine"]
        loc == g.loc["gossipVotesRoutine"]
        key == [loc EXCEPT !.key = g.ProposerPeerKey]
        k == CHOOSE j \in 1..Len(VoteStages) : VoteStages[j] = pc
    IN  IF pc = "IsRunning"
        THEN IF ~PeerAndReactorRunning(g) THEN {Turn(g.ps, "returned", NoLocals)}
             ELSE {Turn(g.ps, "GetRoundState", NoLocals)}
        ELSE IF pc = "GetRoundState"
        THEN {Turn(g.ps, "ProposerPeerKey",
                   [loc EXCEPT !.prs = GetRoundState(g.ps,
                        {"Height", "Round", "Step", "ProposalPOLRound"})])}
        ELSE IF pc = "ProposerPeerKey"
        THEN IF ~peerIsProposer(g) THEN {Continue(g.ps, Sleep(key))}
             ELSE {NextVoteStage(g, g.ps, key, 1)}
        ELSE {IF IsPanic(r) THEN Turn(r.ps, "panicked", r.loc)
              ELSE IF r.ok THEN Continue(r.ps, r.loc)
              ELSE NextVoteStage(g, r.ps, r.loc, k + 1) :
                 r \in VoteStageSend(g, loc, pc)}

\* The Proposal and ProposalPOL messages of gossipBlockPartSetRoutine and
\* gossipDataRoutine: Send of the proposal, SetHasProposal when it went
\* out, and Send of the POL bitmap.
SendProposal(g, loc) ==
    LET rs == g.rs
        proposalMsg(ok) == [msg |-> "Proposal", Proposal |-> rs.Proposal, ok |-> ok]
        polMsg == [msg |-> "ProposalPOL", Height |-> rs.Height,
                   ProposalPOLRound |-> rs.Proposal.POLRound,
                   ProposalPOL |-> RoundPrevotes(rs, rs.Proposal.POLRound).BitArray,
                   ok |-> TRUE]
    IN  {Continue(IF ok THEN SetHasProposal(g.ps, rs.Proposal) ELSE g.ps,
                  [loc EXCEPT !.sent = IF 0 <= rs.Proposal.POLRound
                                       THEN <<proposalMsg(ok), polMsg>>
                                       ELSE <<proposalMsg(ok)>>]) :
            ok \in BOOLEAN}

\* One step of gossipBlockPartSetRoutine.  Past the last test the body of
\* the loop ends: the catch-up branch and its sleeps are commented out, and
\* the next turn starts at once.
gossipBlockPartSet(g) ==
    LET pc == g.routines["gossipBlockPartSetRoutine"]
        loc == g.loc["gossipBlockPartSetRoutine"]
        rs == g.rs
        prs == g.ps
        snap == [loc EXCEPT !.prs = GetRoundState(g.ps,
                     {"Height", "Round", "Proposal", "ProposalBlockPartsHeader",
                      "ProposalBlockParts"})]
        picks == PickRandom(BitArraySub(rs.ProposalBlockParts.BitArray,
                                        prs.ProposalBlockParts))
    IN  IF pc = "IsRunning"
        THEN IF ~PeerAndReactorRunning(g) THEN {Turn(g.ps, "returned", NoLocals)}
             ELSE {Turn(g.ps, "ProposerPeerKey", NoLocals)}
        ELSE IF pc = "ProposerPeerKey"
        THEN IF ~nodeIsProposer(g)
             THEN {Continue(g.ps, Sleep([loc EXCEPT !.key = g.ProposerPeerKey]))}
             ELSE {Turn(g.ps, "GetRoundState",
                        [loc EXCEPT !.key = g.ProposerPeerKey])}
        ELSE IF pc = "GetRoundState"
        THEN IF ~rs.Proposal.isNil /\ ~prs.Proposal
             THEN {Turn(g.ps, "SendProposal", snap)}
             ELSE IF HasHeader(rs.ProposalBlockParts, prs.ProposalBlockPartsHeader)
                     /\ picks # {}
             THEN {Turn(g.ps, "SendBlockPart", [snap EXCEPT !.index = i]) :
                      i \in picks}
             ELSE {Continue(g.ps, snap)}
        ELSE IF pc = "SendProposal"
        THEN SendProposal(g, loc)
        ELSE {Continue(IF ok
                       THEN SetHasProposalBlockPart(g.ps, loc.prs.Height,
                                                    loc.prs.Round, loc.index)
                       ELSE g.ps,
                       [loc EXCEPT !.sent =
                           <<[msg |-> "BlockPart", Height |-> rs.Height,
                              Round |-> rs.Round, index |-> loc.index,
                              ok |-> ok]>>]) : ok \in BOOLEAN}

\* One step of gossipDataRoutine.
gossipData(g) ==
    LET pc == g.routines["gossipDataRoutine"]
        loc == g.loc["gossipDataRoutine"]
        rs == g.rs
        prs == g.ps
        snap == [loc EXCEPT !.prs = GetRoundState(g.ps,
                     {"Height", "Round", "Proposal"})]
    IN  IF pc = "IsRunning"
        THEN IF ~PeerAndReactorRunning(g) THEN {Turn(g.ps, "returned", NoLocals)}
             ELSE {Turn(g.ps, "GetRoundState", NoLocals)}
        ELSE IF pc = "GetRoundState"
        THEN IF rs.Height # prs.Height \/ rs.Round # prs.Round
             THEN {Continue(g.ps, Sleep(snap))}
             ELSE IF ~rs.Proposal.isNil /\ ~prs.Proposal
             THEN {Turn(g.ps, "SendProposal", snap)}
             ELSE {Continue(g.ps, Sleep(snap))}
        ELSE SendProposal(g, loc)

\* VoteSet.TwoThirdsMajority of a vote set of the local round state, whose
\* votes are all for the block of GossipHeader: there is a majority when
\* every validator has voted.
TwoThirdsMajority(votes) ==
    IF votes.isNil THEN [ok |-> FALSE, maj23 |-> ""]
    ELSE IF \A i \in DOMAIN votes.BitArray.Bits : votes.BitArray.Bits[i]
    THEN [ok |-> TRUE, maj23 |-> "block"]
    ELSE [ok |-> FALSE, maj23 |-> ""]

\* ConsensusState.LoadCommit.
LoadCommit(height) == [Round |-> 0, BlockID |-> "block"]

\* peer.TrySend of a VoteSetMaj23Message, and the sleep that follows it.
SendMaj23(loc, height, round, type, blockID) ==
    Sleep([loc EXCEPT !.sent = Append(@, [msg |-> "VoteSetMaj23",
                                          Height |-> height, Round |-> round,
                                          Type |-> type, BlockID |-> blockID])])

\* One step of queryMaj23Routine: the running check, or one of the four
\* blocks of the loop, each of which reads the round state and the peer
\* state anew; the sleep that ends the turn follows the last block.
queryMaj23(g) ==
    LET pc == g.routines["queryMaj23Routine"]
        loc == g.loc["queryMaj23Routine"]
        rs == g.rs
        prs == g.ps
        pv == TwoThirdsMajority(RoundPrevotes(rs, prs.Round))
        pcm == TwoThirdsMajority(RoundPrecommits(rs, prs.Round))
        pol == TwoThirdsMajority(RoundPrevotes(rs, prs.ProposalPOLRound))
        commit == LoadCommit(prs.Height)
    IN  IF pc = "IsRunning"
        THEN IF ~PeerAndReactorRunning(g) THEN {Turn(g.ps, "returned", NoLocals)}
             ELSE {Turn(g.ps, "Prevotes", NoLocals)}
        ELSE IF pc = "Prevotes"
        THEN {Turn(g.ps, "Precommits",
                   IF rs.Height = prs.Height /\ pv.ok
                   THEN SendMaj23(loc, prs.Height, prs.Round, VoteTypePrevote,
                                  pv.maj23)
                   ELSE loc)}
        ELSE IF pc = "Precommits"
        THEN {Turn(g.ps, "POLPrevotes",
                   IF rs.Height = prs.Height /\ pcm.ok
                   THEN SendMaj23(loc, prs.Height, prs.Round, VoteTypePrecommit,
                                  pcm.maj23)
                   ELSE loc)}
        ELSE IF pc = "POLPrevotes"
        THEN {Turn(g.ps, "CatchupCommit",
                   IF rs.Height = prs.Height /\ prs.ProposalPOLRound >= 0 /\ pol.ok
                   THEN SendMaj23(loc, prs.Height, prs.ProposalPOLRound,
                                  VoteTypePrevote, pol.maj23)
                   ELSE loc)}
        ELSE {Continue(g.ps,
                  Sleep(IF /\ prs.CatchupCommitRound # -1
                           /\ 0 < prs.Height /\ prs.Height <= rs.Height
                        THEN SendMaj23(loc, prs.Height, commit.Round,
                                       VoteTypePrecommit, commit.BlockID)
                        ELSE loc))}

CompareHRS(h1, r1, s1, h2, r2, s2) ==
    IF h1 < h2 THEN -1 ELSE IF h1 > h2 THEN 1
    ELSE IF r1 < r2 THEN -1 ELSE IF r1 > r2 THEN 1
    ELSE IF StepRank[s1] < StepRank[s2] THEN -1
    ELSE IF StepRank[s1] > StepRank[s2] THEN 1 ELSE 0

\* ApplyNewRoundStepMessage that applies duplicates and older messages.
ApplyNewRoundStepMessageAnyOrder(ps, msg) ==
    IF FALSE THEN ps
    ELSE LET moved == ps.Height # msg.Height \/ ps.Round # msg.Round
             ps1 == [ps EXCEPT !.Height = msg.Height, !.Round = msg.Round,
                               !.Step = msg.Step]
             ps2 == IF moved
                    THEN [ps1 EXCEPT !.Proposal = FALSE,
                                     !.ProposalBlockPartsHeader = NoPartSetHeader,
                                     !.ProposalBlockParts = NilBitArray,
                                     !.ProposalPOLRound = -1,
                                     !.ProposalPOL = NilBitArray,
                                     !.Prevotes = NilBitArray,
                                     !.Precommits = NilBitArray,
                                     !.CatchupCommitIsPrecommits = FALSE]
                    ELSE ps1
             ps3 == IF /\ ps.Height = msg.Height /\ ps.Round # msg.Round
                       /\ msg.Round = ps.CatchupCommitRound
                    THEN [ps2 EXCEPT !.Precommits = ps.CatchupCommit,
                                     !.CatchupCommitIsPrecommits =
                                         ~ps.CatchupCommit.isNil]
                    ELSE ps2
         IN  IF ps.Height # msg.Height
             THEN [ps3 EXCEPT !.LastCommitRound = msg.LastCommitRound,
                              !.LastCommit =
                                  IF /\ ps.Height + 1 = msg.Height
                                     /\ ps.Round = msg.LastCommitRound
                                  THEN ps3.Precommits ELSE NilBitArray,
                              !.CatchupCommitRound = -1,
                              !.CatchupCommit = NilBitArray,
                              !.CatchupCommitIsPrecommits = FALSE]
             ELSE ps3

\* ApplyNewRoundStepMessage.
ApplyNewRoundStepMessage(ps, msg) ==
    IF CompareHRS(msg.Height, msg.Round, msg.Step,
                  ps.Height, ps.Round, ps.Step) <= 0 THEN ps
    ELSE LET moved == ps.Height # msg.Height \/ ps.Round # msg.Round
             ps1 == [ps EXCEPT !.Height = msg.Height, !.Round = msg.Round,
                               !.Step = msg.Step]
             ps2 == IF moved
                    THEN [ps1 EXCEPT !.Proposal = FALSE,
                                     !.ProposalBlockPartsHeader = NoPartSetHeader,
                                     !.ProposalBlockParts = NilBitArray,
                                     !.ProposalPOLRound = -1,
                                     !.ProposalPOL = NilBitArray,
                                     !.Prevotes = NilBitArray,
                                     !.Precommits = NilBitArray,
                                     !.CatchupCommitIsPrecommits = FALSE]
                    ELSE ps1
             ps3 == IF /\ ps.Height = msg.Height /\ ps.Round # msg.Round
                       /\ msg.Round = ps.CatchupCommitRound
                    THEN [ps2 EXCEPT !.Precommits = ps.CatchupCommit,
                                     !.CatchupCommitIsPrecommits =
                                         ~ps.CatchupCommit.isNil]
                    ELSE ps2
         IN  IF ps.Height # msg.Height
             THEN [ps3 EXCEPT !.LastCommitRound = msg.LastCommitRound,
                              !.LastCommit =
                                  IF /\ ps.Height + 1 = msg.Height
                                     /\ ps.Round = msg.LastCommitRound
                                  THEN ps3.Precommits ELSE NilBitArray,
                              !.CatchupCommitRound = -1,
                              !.CatchupCommit = NilBitArray,
                              !.CatchupCommitIsPrecommits = FALSE]
             ELSE ps3

\* The round states the local node can be in at GossipHeight, round 1: with
\* or without the proposal, with none, the first or all of its parts, and
\* with no votes, all prevotes, or all prevotes and precommits of rounds 0
\* and 1.  last is the turn a routine has just taken.
GossipHeader == [Total |-> GossipParts, Hash |-> "block"]
GossipProposals ==
    {NoProposal} \cup
    {[isNil |-> FALSE, Height |-> GossipHeight, Round |-> 1, POLRound |-> pol,
      BlockPartsHeader |-> GossipHeader] : pol \in {-1, 0}}
GossipPartSets ==
    {NoPartSet} \cup
    {[isNil |-> FALSE, header |-> GossipHeader, BitArray |-> NewBitArray(bits)] :
        bits \in {[i \in 1..GossipParts |-> i = 1],
                  [i \in 1..GossipParts |-> TRUE]}}
GossipVoteBits ==
    LET none == [i \in 1..GossipValidators |-> FALSE]
        all == [i \in 1..GossipValidators |-> TRUE]
    IN  {[pv |-> none, pc |-> none], [pv |-> all, pc |-> none],
         [pv |-> all, pc |-> all]}
LocalRoundStates ==
    {[Height |-> GossipHeight, Round |-> 1, Proposal |-> proposal,
      ProposalBlockParts |-> parts,
      Prevotes |-> [r \in 0..1 |->
                       VoteSet(GossipHeight, r, VoteTypePrevote, votes.pv)],
      Precommits |-> [r \in 0..1 |->
                         VoteSet(GossipHeight, r, VoteTypePrecommit, votes.pc)],
      LastCommit |-> lc] :
        proposal \in GossipProposals, parts \in GossipPartSets,
        votes \in GossipVoteBits,
        lc \in {[Height |-> GossipHeight - 1, Type |-> VoteTypePrecommit]}}

\* The round states the node gossips from: nothing yet; the proposal with
\* its first part and all prevotes; the proposal with a POL round, every
\* part and every vote.
GossipRoundStates ==
    {rs \in LocalRoundStates :
        \/ /\ rs.Proposal.isNil /\ rs.ProposalBlockParts.isNil
           /\ ~rs.Prevotes[0].BitArray.Bits[1]
        \/ /\ ~rs.Proposal.isNil /\ rs.Proposal.POLRound = -1
           /\ ~rs.ProposalBlockParts.isNil
           /\ ~rs.ProposalBlockParts.BitArray.Bits[GossipParts]
           /\ rs.Prevotes[0].BitArray.Bits[1]
           /\ ~rs.Precommits[0].BitArray.Bits[1]
        \/ /\ ~rs.Proposal.isNil /\ rs.Proposal.POLRound = 0
           /\ ~rs.ProposalBlockParts.isNil
           /\ rs.ProposalBlockParts.BitArray.Bits[GossipParts]
           /\ rs.Precommits[0].BitArray.Bits[1]}

NoTurn ==
    [routine |-> "", ProposerPeerKey |-> "", prs |-> NewPeerState,
     before |-> NewPeerState, after |-> NewPeerState, sent |-> <<>>,
     slept |-> FALSE, wrote |-> FALSE, done |-> FALSE, returned |-> FALSE]

\* The routines AddPeer starts for the peer.
PeerRoutines ==
    {"gossipBlockPartSetRoutine", "gossipDataRoutine", "gossipVotesRoutine",
     "queryMaj23Routine"}

\* No call of Receive is under way.
NoReceive == [pc |-> "", chID |-> 0, msg |-> [type |-> ""]]

\* AddPeer on a running reactor: the peer state is new and the four
\* routines are started.  routines names the statement each routine makes
\* next, loc holds its locals and recv the call of Receive under way.
AddPeer(rs, proposer) ==
    [nodeKey |-> NodeKey, peerKey |-> PeerKey, ProposerPeerKey |-> proposer,
     rs |-> rs, ps |-> NewPeerState, last |-> NoTurn,
     peerRunning |-> TRUE, conRRunning |-> TRUE,
     routines |-> [r \in PeerRoutines |-> "IsRunning"],
     loc |-> [r \in PeerRoutines |-> NoLocals],
     recv |-> NoReceive, received |-> 0]

InitGossip ==
    /\ valSet = NewValidatorSet(ConsensusValidators)
    /\ ret = NoRet
    /\ ccdb = <<>>
    /\ chains = <<>>
    /\ nops = 0
    /\ cs = <<>>
    /\ proposals = {}
    /\ aggrs = {}
    /\ sync = 0
    /\ hst = <<>>
    /\ ex = <<>>
    /\ svc = <<>>
    /\ hs = <<>>
    /\ rp = <<>>
    /\ bc = <<>>
    /\ \E rs \in GossipRoundStates : gp = AddPeer(rs, NodeKey)

\* The consensus state, which runs until the reactor stops it, names
\* another proposer.
DoSetProposerPeerKey ==
    /\ gp.conRRunning
    /\ \E proposer \in PeerKeys \ {gp.ProposerPeerKey} :
          gp' = [gp EXCEPT !.ProposerPeerKey = proposer, !.last = NoTurn]
    /\ UNCHANGED <<valSet, ret, nops, cs, proposals, aggrs, sync, hs, rp, bc, hst, ex, svc, ccdb, chains>>

\* Receive of a NewRoundStepMessage of the peer; Receive returns at once
\* when the reactor is not running.
DoReceiveNewRoundStep ==
    /\ gp.conRRunning
    /\ \E h \in {GossipHeight - 1, GossipHeight}, r \in 0..1, lcr \in {0},
          st \in {RoundStepNewHeight, RoundStepPrevote} :
          LET ps == ApplyNewRoundStepMessage(gp.ps,
                        [Height |-> h, Round |-> r, Step |-> st,
                         LastCommitRound |-> lcr])
          IN  /\ ps # gp.ps
              /\ gp' = [gp EXCEPT !.ps = ps, !.last = NoTurn]
    /\ UNCHANGED <<valSet, ret, nops, cs, proposals, aggrs, sync, hs, rp, bc, hst, ex, svc, ccdb, chains>>

\* A step of a routine that has not ended: last tells what the turn
\* has done up to and with this step, before and after being the peer
\* state around the step, and the locals are dropped when the turn ends.
RoutineTurn(routine, turns) ==
    /\ gp.routines[routine] \notin {"returned", "panicked"}
    /\ \E t \in turns :
          LET wrote == t.loc.wrote \/ t.ps # gp.ps
              done == t.pc \in {"IsRunning", "returned"}
          IN  gp' = [gp EXCEPT
                       !.ps = t.ps,
                       !.routines[routine] = t.pc,
                       !.loc[routine] = IF done THEN NoLocals
                                        ELSE [t.loc EXCEPT !.wrote = wrote],
                       !.last = [routine |-> routine,
                                 ProposerPeerKey |-> t.loc.key,
                                 prs |-> t.loc.prs,
                                 before |-> gp.ps, after |-> t.ps,
                                 sent |-> t.loc.sent, slept |-> t.loc.slept,
                                 wrote |-> wrote, done |-> done,
                                 returned |-> t.pc = "returned"]]
    /\ UNCHANGED <<valSet, ret, nops, cs, proposals, aggrs, sync, hs, rp, bc, hst, ex, svc, ccdb, chains>>

DoGossipVotes == RoutineTurn("gossipVotesRoutine", gossipVotes(gp))

DoGossipBlockPartSet ==
    RoutineTurn("gossipBlockPartSetRoutine", gossipBlockPartSet(gp))

DoGossipData == RoutineTurn("gossipDataRoutine", gossipData(gp))

DoQueryMaj23 == RoutineTurn("queryMaj23Routine", queryMaj23(gp))

\* The two routines that look at ProposerPeerKey, next to the messages of
\* the peer and the changes of the proposer.
NextGossip ==
    \/ DoSetProposerPeerKey
    \/ DoReceiveNewRoundStep
    \/ DoGossipVotes
    \/ DoGossipBlockPartSet

SpecGossip == InitGossip /\ [][NextGossip]_vars

\* The peer and the reactor stopping while the routines run.  The round
\* states the node starts from are the one with nothing to gossip and the
\* one with the proposal, every part and every vote; the peer has sent one
\* NewRoundStepMessage for round 0 of GossipHeight, and the proposer stays
\* who it is.
ShutdownRoundStates ==
    {rs \in LocalRoundStates :
        \/ /\ rs.Proposal.isNil /\ rs.ProposalBlockParts.isNil
           /\ ~rs.Prevotes[0].BitArray.Bits[1]
        \/ /\ ~rs.Proposal.isNil /\ rs.Proposal.POLRound = 0
           /\ ~rs.ProposalBlockParts.isNil
           /\ rs.ProposalBlockParts.BitArray.Bits[GossipParts]
           /\ rs.Precommits[0].BitArray.Bits[1]}

InitShutdown ==
    /\ valSet = NewValidatorSet(ConsensusValidators)
    /\ ret = NoRet
    /\ ccdb = <<>>
    /\ chains = <<>>
    /\ nops = 0
    /\ cs = <<>>
    /\ proposals = {}
    /\ aggrs = {}
    /\ sync = 0
    /\ hst = <<>>
    /\ ex = <<>>
    /\ svc = <<>>
    /\ hs = <<>>
    /\ rp = <<>>
    /\ bc = <<>>
    /\ \E rs \in ShutdownRoundStates, proposer \in {NodeKey, PeerKey},
          r \in {0}, st \in {RoundStepPrevote} :
          gp = [AddPeer(rs, proposer) EXCEPT
                  !.ps = ApplyNewRoundStepMessage(
                             NewPeerState,
                             [Height |-> GossipHeight, Round |-> r,
                              Step |-> st, LastCommitRound |-> -1])]

\* Peer.Stop.
DoStopPeer ==
    /\ gp.peerRunning
    /\ gp' = [gp EXCEPT !.peerRunning = FALSE, !.last = NoTurn]
    /\ UNCHANGED <<valSet, ret, nops, cs, proposals, aggrs, sync, hs, rp, bc, hst, ex, svc, ccdb, chains>>

\* ConsensusReactor.Stop.
DoStopReactor ==
    /\ gp.conRRunning
    /\ gp' = [gp EXCEPT !.conRRunning = FALSE, !.last = NoTurn]
    /\ UNCHANGED <<valSet, ret, nops, cs, proposals, aggrs, sync, hs, rp, bc, hst, ex, svc, ccdb, chains>>

NextShutdown ==
    \/ DoGossipVotes
    \/ DoGossipBlockPartSet
    \/ DoGossipData
    \/ DoQueryMaj23
    \/ DoStopPeer
    \/ DoStopReactor

\* Every routine is a goroutine of its own whose sleeps and sends end, so
\* each of them goes on taking turns.
SpecShutdown ==
    /\ InitShutdown
    /\ [][NextShutdown]_vars
    /\ WF_vars(DoGossipVotes)
    /\ WF_vars(DoGossipBlockPartSet)
    /\ WF_vars(DoGossipData)
    /\ WF_vars(DoQueryMaj23)

\* C19 -- the votes routine sends only to the proposer: a turn of
\* gossipVotesRoutine that reads a ProposerPeerKey other than the key of
\* the peer hands no Vote and no SignAggr to Send and does not change the
\* peer state.
VotesOnlyToProposer ==
    (gp.last.routine = "gossipVotesRoutine"
     /\ gp.last.ProposerPeerKey \notin {"", gp.peerKey}) =>
        /\ gp.last.done
        /\ gp.last.sent = <<>>
        /\ ~gp.last.wrote
        /\ gp.last.after = gp.last.before

VotesOnlyToProposerWitness ==
    /\ gp.last.routine = "gossipVotesRoutine"
    /\ gp.last.done
    /\ gp.last.ProposerPeerKey = NodeKey
    /\ gp.last.sent = <<>>
    /\ gp.last.prs.Height = GossipHeight /\ gp.last.prs.Round = 0
    /\ gp.last.prs.Step = RoundStepPrevote
    /\ gp.last.after = gp.last.before
    /\ gp.rs.Prevotes[0].BitArray.Bits[1]

\* C20 -- only the proposer pushes proposal data from the block-parts
\* routine: a turn of gossipBlockPartSetRoutine hands a Proposal, a
\* ProposalPOL or a BlockPart to Send only when the ProposerPeerKey it read
\* is the node's key, and a BlockPart it sends is a part the node holds and
\* the peer's bitmap lacks, for a part-set header the peer state matches,
\* as the routine's snapshot of the peer state has them.
PartsOnlyFromProposer ==
    gp.last.routine = "gossipBlockPartSetRoutine" =>
        /\ gp.last.wrote => gp.last.sent # <<>>
        /\ gp.last.sent # <<>> => gp.nodeKey = gp.last.ProposerPeerKey
        /\ \A i \in DOMAIN gp.last.sent :
              gp.last.sent[i].msg = "BlockPart" =>
                 /\ gp.last.prs.ProposalBlockPartsHeader
                        = gp.rs.ProposalBlockParts.header
                 /\ gp.rs.ProposalBlockParts.BitArray.Bits[gp.last.sent[i].index + 1]
                 /\ ~gp.last.prs.ProposalBlockParts.Bits[gp.last.sent[i].index + 1]

PartsOnlyFromProposerWitness ==
    /\ gp.last.routine = "gossipBlockPartSetRoutine"
    /\ gp.last.done
    /\ gp.last.ProposerPeerKey = NodeKey
    /\ Len(gp.last.sent) = 1
    /\ gp.last.sent[1].msg = "BlockPart" /\ gp.last.sent[1].ok
    /\ gp.last.sent[1].index = 1
    /\ gp.last.prs.ProposalBlockParts.Bits = <<TRUE, FALSE>>
    /\ gp.last.before.ProposalBlockParts.Bits = <<TRUE, FALSE>>
    /\ gp.last.after.ProposalBlockParts.Bits = <<TRUE, TRUE>>

\* C21 -- no busy loop in the per-peer routines: a turn of the loop of any
\* of the four routines that hands nothing to Send or TrySend sleeps before
\* the next turn starts.
NoBusyLoop ==
    (gp.last.routine \in PeerRoutines /\ gp.last.done /\ ~gp.last.returned
     /\ gp.last.sent = <<>>) => gp.last.slept

\* C22 -- shutdown cancels the peer routines: once the peer or the reactor
\* is no longer running every one of the four routines returns, the
\* running check in which a routine finds that out sends nothing and
\* leaves the peer state alone, and a routine that has returned takes no
\* further step.
RoutinesReturnOnShutdown ==
    /\ (~gp.peerRunning \/ ~gp.conRRunning)
           ~> (\A r \in PeerRoutines : gp.routines[r] = "returned")
    /\ [][\A r \in PeerRoutines :
             /\ ((~gp.peerRunning \/ ~gp.conRRunning)
                 /\ gp.routines[r] = "IsRunning"
                 /\ gp'.routines[r] # gp.routines[r])
                   => /\ gp'.routines[r] = "returned"
                      /\ gp'.last.routine = r
                      /\ gp'.last.returned /\ gp'.last.sent = <<>>
                      /\ gp'.ps = gp.ps
             /\ gp.routines[r] = "returned"
                   => /\ gp'.routines[r] = "returned"
                      /\ (gp'.last.routine = r => gp'.last = gp.last)]_vars

RoutinesReturnOnShutdownWitness ==
    /\ ~gp.conRRunning /\ gp.peerRunning
    /\ \A r \in PeerRoutines : gp.routines[r] = "returned"
    /\ ~gp.ps.Prevotes.isNil /\ gp.ps.Prevotes.Bits[1]
    /\ gp.last.returned

\* ------------------------------------------------------- starting a height
\* ConsensusState.StartNewHeight, InitStateAndEpoch, Initialize and
\* UpdateToStateAndEpoch.  hst holds the height of the chain's current
\* block, the validators of the epoch, the fields of the consensus state,
\* and what the last call did: the state it started from, its outcome and
\* the operations it made with cs.mtx held or not.
MaxChainHeight == 3
EpochValidatorSets == {{1, 2, 3}, {1, 2, 3, 4}}

NilBlock == [isNil |-> TRUE]
NilSignAggr == [isNil |-> TRUE]
NilValidators == [isNil |-> TRUE]
NilVotes == [isNil |-> TRUE]
NilState == [isNil |-> TRUE]
NoEpoch == [isNil |-> TRUE]
NilExtra == [isNil |-> TRUE]

\* An epoch with its validators, and the state of the last block: whether
\* MakeGenesisState made it, the height of its TdmExtra and its epoch.
HeightEpoch(validators) ==
    [isNil |-> FALSE, Validators |-> [isNil |-> FALSE, set |-> validators]]
HeightState(genesis, height, epoch) ==
    [isNil |-> FALSE, genesis |-> genesis, Height |-> height, Epoch |-> epoch]

\* state.GetValidators(): the validators of the epoch of the state.
GetValidators(state) == state.Epoch.Validators

HeightBlock(height, round) == [isNil |-> FALSE, Height |-> height, Round |-> round]
PrecommitSignAggr(height, round) ==
    [isNil |-> FALSE, Height |-> height, Round |-> round,
     Type |-> VoteTypePrecommit]

\* NewHeightVoteSet: no vote of any round.
NewHeightVoteSet(height, validators) ==
    [isNil |-> FALSE, Height |-> height, Validators |-> validators,
     Precommits |-> [r \in Rounds |-> {}]]

\* VoteSet.HasTwoThirdsMajority of the precommits of a round, every vote
\* being for the one block of the round and every validator having the
\* same power.
HasTwoThirdsMajority(votes, round) ==
    3 * Cardinality(votes.Precommits[round])
        > 2 * Cardinality(votes.Validators.set)

\* HeightVoteSignAggr with no aggregate.
NewHeightVoteSignAggr == [r \in Rounds |-> NilSignAggr]

\* Initialize.
InitializeKeepLock(c) ==
    [c EXCEPT !.Height = 0, !.blockFromMiner = NilBlock,
              !.Validators = NilValidators, !.Proposal = NilBlock,
              !.ProposalBlock = NilBlock, !.ProposalBlockParts = NilBlock,
              !.Votes = NilVotes, !.CommitRound = -1,
              !.LastCommit = NilSignAggr, !.Epoch = NoEpoch,
              !.state = NilState, !.epoch = NoEpoch]
Initialize(c) ==
    [c EXCEPT !.Height = 0, !.blockFromMiner = NilBlock,
              !.Validators = NilValidators, !.Proposal = NilBlock,
              !.ProposalBlock = NilBlock, !.ProposalBlockParts = NilBlock,
              !.LockedRound = 0, !.LockedBlock = NilBlock,
              !.LockedBlockParts = NilBlock, !.Votes = NilVotes,
              !.CommitRound = -1, !.LastCommit = NilSignAggr,
              !.Epoch = NoEpoch, !.state = NilState, !.epoch = NoEpoch]

\* A consensus state as it is constructed: every field of the round state
\* is the one Initialize sets.
NewConsensusState ==
    Initialize([Height |-> 0, Round |-> 0, Step |-> RoundStepNewHeight,
                blockFromMiner |-> NilBlock, Validators |-> NilValidators,
                Proposal |-> NilBlock, ProposalBlock |-> NilBlock,
                ProposalBlockParts |-> NilBlock, LockedRound |-> 0,
                LockedBlock |-> NilBlock, LockedBlockParts |-> NilBlock,
                Votes |-> NilVotes, VoteSignAggr |-> NewHeightVoteSignAggr,
                CommitRound |-> -1, LastCommit |-> NilSignAggr,
                Epoch |-> NoEpoch, state |-> NilState, epoch |-> NoEpoch])

\* updateRoundStep.
updateRoundStep(c, round, step) == [c EXCEPT !.Round = round, !.Step = step]

\* An operation made by a call, with whether cs.mtx was held.  The kinds
\* "disk", "event" and "send" block.
Op(name, kind, mtx) == [op |-> name, kind |-> kind, mtx |-> mtx]
BlockingKinds == {"disk", "event", "send", "sleep"}

\* newStep fires the NewRoundStep event.
newStep(mtx) == <<Op("newStep", "event", mtx)>>

\* scheduleRound0 hands the timeout of round 0 to the timeout ticker.
scheduleRound0(mtx) == <<Op("scheduleRound0", "send", mtx)>>

\* UpdateToStateAndEpoch.  state is the state of the last block and epoch
\* the epoch of the new height.  out is "panic" when the precommits of
\* CommitRound have no +2/3.
UpdateToStateAndEpoch(c, state, epoch, mtx) ==
    LET validators == GetValidators(state)
        carry == c.CommitRound > -1 /\ ~c.Votes.isNil
        lastPrecommits == IF carry THEN c.VoteSignAggr[c.CommitRound]
                          ELSE NilSignAggr
        height == state.Height + 1
        c1 == [Initialize(c) EXCEPT !.Height = height]
        c2 == updateRoundStep(c1, 0, RoundStepNewHeight)
        c3 == [c2 EXCEPT !.Validators = validators,
                         !.Votes = NewHeightVoteSet(height, validators),
                         !.LastCommit = lastPrecommits,
                         !.Epoch = epoch, !.state = state, !.epoch = epoch]
    IN  IF carry /\ ~HasTwoThirdsMajority(c.Votes, c.CommitRound)
        THEN [c |-> c, out |-> "panic", trace |-> <<>>]
        ELSE [c |-> c3, out |-> "ok", trace |-> newStep(mtx)]

\* ReconstructLastCommit: the commit of the stored block becomes LastCommit.
ReconstructLastCommit(c, height) ==
    [c EXCEPT !.LastCommit = PrecommitSignAggr(height, 0)]

\* LoadLastTendermintExtra: nil at the genesis block, and nil when the
\* current block or the extra data of its header cannot be had (extraErr);
\* else the extra data of the current block, which carries its height.
LoadLastTendermintExtra(curHeight, extraErr) ==
    IF curHeight = 0 \/ extraErr THEN NilExtra
    ELSE [isNil |-> FALSE, Height |-> curHeight]

\* What the file named by genesis_file is: not there, not readable, not
\* the JSON of a genesis document, a document whose state and epoch
\* disagree on the epoch number, or a good one.
GenesisFiles == {"missing", "unreadable", "malformed", "wrong epoch", "ok"}

\* InitStateAndEpoch.  With no extra data of a last block the state is
\* made from the genesis file and the reward scheme and the epoch are
\* saved, or the process exits or panics on a bad file; else the epoch is
\* loaded and the last commit reconstructed.
InitStateAndEpoch(c, curHeight, validators, genesisFile, extraErr, mtx) ==
    LET TdmExtra == LoadLastTendermintExtra(curHeight, extraErr)
        epoch == HeightEpoch(validators)
        ended(out, trace) ==
            [c |-> c, out |-> out, state |-> NilState, epoch |-> NoEpoch,
             trace |-> trace]
        exists == <<Op("FileExists", "disk", mtx)>>
        read == exists \o <<Op("ReadFile", "disk", mtx)>>
    IN  IF TdmExtra.isNil
        THEN IF genesisFile = "missing" THEN ended("exit", exists)
             ELSE IF genesisFile = "unreadable" THEN ended("exit", read)
             ELSE IF genesisFile = "malformed" THEN ended("PanicSanity", read)
             ELSE IF genesisFile = "wrong epoch" THEN ended("exit", read)
             ELSE [c |-> c, out |-> "ok",
                   state |-> HeightState(TRUE, 0, epoch), epoch |-> epoch,
                   trace |-> read \o <<Op("rewardScheme.Save", "disk", mtx),
                                       Op("epoch.Save", "disk", mtx)>>]
        ELSE [c |-> ReconstructLastCommit(c, TdmExtra.Height), out |-> "ok",
              state |-> HeightState(FALSE, TdmExtra.Height, epoch),
              epoch |-> epoch,
              trace |-> <<Op("LoadOneEpoch", "disk", mtx)>>]

\* epoch = state.ApplyBlock(curEthBlock, epoch).  The body of ApplyBlock is
\* not among the sources: the call returns the epoch it was given, or an
\* epoch that follows it (nextValidators), which is then the epoch of the
\* state.
ApplyBlockEpoch(state, epoch, nextValidators, mtx) ==
    LET next == [isNil |-> FALSE, Validators |-> nextValidators]
    IN  IF nextValidators.isNil
        THEN [state |-> state, epoch |-> epoch,
              trace |-> <<Op("ApplyBlock", "call", mtx)>>]
        ELSE [state |-> [state EXCEPT !.Epoch = next], epoch |-> next,
              trace |-> <<Op("ApplyBlock", "call", mtx)>>]

\* StartNewHeight: cs.mtx is taken first and released by the deferred
\* Unlock, when the function returns.
StartNewHeight(h, genesisFile, extraErr, nextValidators) ==
    LET init == InitStateAndEpoch(h.c, h.curHeight, h.validators,
                                  genesisFile, extraErr, TRUE)
        applied == ApplyBlockEpoch(init.state, init.epoch, nextValidators,
                                   TRUE)
        upd == UpdateToStateAndEpoch(init.c, applied.state, applied.epoch,
                                     TRUE)
        pre == [c |-> h.c, curHeight |-> h.curHeight]
    IN  IF init.out # "ok"
        THEN [h EXCEPT !.c = init.c, !.out = init.out, !.pre = pre,
                       !.op = "StartNewHeight", !.trace = init.trace]
        ELSE IF upd.out # "ok"
        THEN [h EXCEPT !.c = upd.c, !.out = upd.out, !.pre = pre,
                       !.op = "StartNewHeight",
                       !.trace = init.trace \o applied.trace \o upd.trace]
        ELSE [h EXCEPT !.c = upd.c, !.out = "ok", !.pre = pre,
                       !.op = "StartNewHeight",
                       !.trace = init.trace \o applied.trace \o upd.trace
                                    \o newStep(TRUE) \o scheduleRound0(TRUE)]

\* The round states the state machine can have reached at its height: a
\* proposal or none, a lock or none, precommits of a round with or without
\* +2/3, and a commit round with the aggregate of its precommits.
RoundStatesAt(c) ==
    {LET proposal == IF proposed THEN HeightBlock(c.Height, r) ELSE NilBlock
     IN  [c EXCEPT !.Round = r, !.Step = RoundStepCommit,
                   !.Proposal = proposal, !.ProposalBlock = proposal,
                   !.ProposalBlockParts = proposal,
                   !.blockFromMiner = proposal,
                   !.LockedRound = IF locked THEN r ELSE 0,
                   !.LockedBlock = IF locked THEN proposal ELSE NilBlock,
                   !.LockedBlockParts = IF locked THEN proposal ELSE NilBlock,
                   !.Votes.Precommits[r] = voters,
                   !.VoteSignAggr[r] =
                       IF commit THEN PrecommitSignAggr(c.Height, r)
                       ELSE NilSignAggr,
                   !.CommitRound = IF commit THEN r ELSE -1] :
        r \in 0..1, proposed \in BOOLEAN, locked \in BOOLEAN,
        commit \in BOOLEAN, voters \in {{}, c.Validators.set}}

NoHeightCall == [c |-> NewConsensusState, curHeight |-> 0]

InitHeight ==
    /\ valSet = NewValidatorSet(ConsensusValidators)
    /\ ret = NoRet
    /\ ccdb = <<>>
    /\ chains = <<>>
    /\ nops = 0
    /\ cs = <<>>
    /\ proposals = {}
    /\ aggrs = {}
    /\ sync = 0
    /\ hs = <<>>
    /\ rp = <<>>
    /\ bc = <<>>
    /\ gp = <<>>
    /\ ex = <<>>
    /\ svc = <<>>
    /\ \E curHeight \in 0..1, validators \in EpochValidatorSets :
          hst = [curHeight |-> curHeight, validators |-> validators,
                 c |-> NewConsensusState, out |-> "ok", op |-> "",
                 pre |-> NoHeightCall, trace |-> <<>>]

\* The node starts, or a block has been inserted.
DoStartNewHeight ==
    /\ hst.out = "ok"
    /\ \E genesisFile \in GenesisFiles, extraErr \in BOOLEAN,
          nextValidators \in {NilValidators} \cup
                             {[isNil |-> FALSE, set |-> v] :
                                 v \in EpochValidatorSets} :
          hst' = StartNewHeight(hst, genesisFile, extraErr, nextValidators)
    /\ UNCHANGED <<valSet, ret, nops, cs, proposals, aggrs, sync, hs, rp, bc, gp, ex, svc, ccdb, chains>>

\* The state machine works on its height.
DoRounds ==
    /\ hst.out = "ok"
    /\ ~hst.c.Votes.isNil
    /\ \E c \in RoundStatesAt(hst.c) :
          /\ c # hst.c
          /\ hst' = [hst EXCEPT !.c = c, !.op = "", !.pre = NoHeightCall,
                                !.trace = <<>>]
    /\ UNCHANGED <<valSet, ret, nops, cs, proposals, aggrs, sync, hs, rp, bc, gp, ex, svc, ccdb, chains>>

\* A block is inserted into the chain, by this node's commit or by a
\* download, and the epoch may change with it.
DoInsertBlock ==
    /\ hst.out = "ok"
    /\ hst.curHeight < MaxChainHeight
    /\ \E validators \in EpochValidatorSets :
          hst' = [hst EXCEPT !.curHeight = @ + 1, !.validators = validators,
                             !.op = "", !.pre = NoHeightCall, !.trace = <<>>]
    /\ UNCHANGED <<valSet, ret, nops, cs, proposals, aggrs, sync, hs, rp, bc, gp, ex, svc, ccdb, chains>>

\* The node is started again with a new consensus state.
DoRestart ==
    /\ hst.c # NewConsensusState \/ hst.out # "ok"
    /\ hst' = [hst EXCEPT !.c = NewConsensusState, !.out = "ok", !.op = "",
                          !.pre = NoHeightCall, !.trace = <<>>]
    /\ UNCHANGED <<valSet, ret, nops, cs, proposals, aggrs, sync, hs, rp, bc, gp, ex, svc, ccdb, chains>>

NextHeight ==
    \/ DoStartNewHeight
    \/ DoRounds
    \/ DoInsertBlock
    \/ DoRestart

SpecHeight == InitHeight /\ [][NextHeight]_vars

\* C23 -- no suspension under a lock: no operation that blocks (a sleep, a
\* send to a peer or a channel, an event, disk I/O) is made while cs.mtx or
\* ps.mtx is held; StartNewHeight has released cs.mtx before any of them.
NoSuspensionUnderLock ==
    \A i \in DOMAIN hst.trace :
        hst.trace[i].kind \in BlockingKinds => ~hst.trace[i].mtx

\* C28 -- starting a height resets the round state: after
\* UpdateToStateAndEpoch has returned, Height is the state's last height
\* plus one, Round 0, Step NewHeight, CommitRound -1, the proposal, the
\* proposal block, the locked block and the miner's block are nil, and
\* Votes is an empty HeightVoteSet of the new height over the validators
\* of the state.
HeightResetsRoundState ==
    (hst.op = "StartNewHeight" /\ hst.out = "ok") =>
        /\ hst.c.Height = hst.c.state.Height + 1
        /\ hst.c.state.Height = IF hst.c.state.genesis THEN 0
                                ELSE hst.pre.curHeight
        /\ hst.c.Round = 0 /\ hst.c.Step = RoundStepNewHeight
        /\ hst.c.CommitRound = -1
        /\ hst.c.Proposal.isNil /\ hst.c.ProposalBlock.isNil
        /\ hst.c.ProposalBlockParts.isNil
        /\ hst.c.LockedBlock.isNil /\ hst.c.LockedBlockParts.isNil
        /\ hst.c.LockedRound = 0
        /\ hst.c.blockFromMiner.isNil
        /\ hst.c.Validators = GetValidators(hst.c.state)
        /\ hst.c.Validators.set \in EpochValidatorSets
        /\ hst.c.Votes = NewHeightVoteSet(hst.c.Height, hst.c.Validators)

HeightResetsRoundStateWitness ==
    /\ hst.op = "StartNewHeight" /\ hst.out = "ok"
    /\ hst.c.Height = 3
    /\ hst.pre.c.Height = 2
    /\ ~hst.pre.c.Proposal.isNil /\ ~hst.pre.c.LockedBlock.isNil
    /\ hst.pre.c.LockedRound = 1
    /\ hst.pre.c.CommitRound = 1
    /\ hst.pre.c.Votes.Precommits[1] # {}
    /\ hst.pre.c.Validators # hst.c.Validators

\* C29 -- last-commit carry-over: after a StartNewHeight that found
\* CommitRound > -1, LastCommit is the aggregate of the precommits of that
\* round, whose +2/3 the call requires; and whenever the new height is above
\* 1, LastCommit is not nil after StartNewHeight, after a restart too.
LastCommitCarriedOver ==
    /\ (hst.op = "StartNewHeight" /\ hst.out = "ok") =>
          /\ (hst.pre.c.CommitRound > -1 /\ ~hst.pre.c.Votes.isNil) =>
                /\ hst.c.LastCommit = hst.pre.c.VoteSignAggr[hst.pre.c.CommitRound]
                /\ HasTwoThirdsMajority(hst.pre.c.Votes, hst.pre.c.CommitRound)
          /\ hst.c.Height > 1 => ~hst.c.LastCommit.isNil
    /\ (hst.op = "StartNewHeight" /\ hst.out = "panic") =>
          /\ hst.pre.c.CommitRound > -1
          /\ ~HasTwoThirdsMajority(hst.pre.c.Votes, hst.pre.c.CommitRound)

\* ------------------------------------------------------------------ Receive
\* ConsensusReactor.Receive: what a message of the peer does to the peer
\* state and which messages go to the queue of the consensus state.
StateChannel == 32
DataChannel == 33
VoteChannel == 34
VoteSetBitsChannel == 35
UnknownChannel == VoteSetBitsChannel + 1
Channels ==
    {StateChannel, DataChannel, VoteChannel, VoteSetBitsChannel, UnknownChannel}

\* BitArray.Update copies the words of o over those of bA and keeps the
\* length of bA; nothing happens when either is nil or o has no word.
BitArrayUpdate(bA, o) ==
    IF bA.isNil \/ o.isNil \/ Len(o.Bits) = 0 THEN bA
    ELSE NewBitArray([i \in 1..Len(bA.Bits) |->
                         i <= Len(o.Bits) /\ o.Bits[i]])

\* BitArray.Or: as long as the longer of the two.
BitArrayOr(bA, o) ==
    LET n == IF Len(bA.Bits) > Len(o.Bits) THEN Len(bA.Bits) ELSE Len(o.Bits)
    IN  NewBitArray([i \in 1..n |->
                        \/ i <= Len(bA.Bits) /\ bA.Bits[i]
                        \/ i <= Len(o.Bits) /\ o.Bits[i]])

\* VoteSet.BitArrayByBlockID: every vote of the local sets is for the block
\* of GossipHeader.
BitArrayByBlockID(votes, blockID) ==
    IF votes.isNil \/ blockID # GossipHeader.Hash THEN NilBitArray
    ELSE votes.BitArray

\* setHasVote: the peer state it leaves, or Panicked.
setHasVote(ps, height, round, type, index) ==
    LET field == getVoteBitArray(ps, height, round, type)
    IN  IF field = "PanicSanity" THEN Panicked
        ELSE IF field = "" THEN ps
        ELSE SetBitArray(ps, field, BitArraySetIndex(ps[field], index, TRUE))

\* SetHasMaj23SignAggr: for the height and round of the peer it sets the
\* flag of the type, and panics on a type that is neither prevote nor
\* precommit.
SetHasMaj23SignAggr(ps, signAggr) ==
    IF ps.Height # signAggr.Height \/ ps.Round # signAggr.Round THEN ps
    ELSE IF signAggr.Type = VoteTypePrevote
    THEN [ps EXCEPT !.PrevoteMaj23SignAggr = TRUE]
    ELSE IF signAggr.Type = VoteTypePrecommit
    THEN [ps EXCEPT !.PrecommitMaj23SignAggr = TRUE]
    ELSE Panicked

\* ApplyCommitStepMessage.
ApplyCommitStepMessage(ps, msg) ==
    IF ps.Height # msg.Height THEN ps
    ELSE [ps EXCEPT !.ProposalBlockPartsHeader = msg.BlockPartsHeader,
                    !.ProposalBlockParts = msg.BlockParts]

\* ApplyProposalPOLMessage.
ApplyProposalPOLMessage(ps, msg) ==
    IF ps.Height # msg.Height THEN ps
    ELSE IF ps.ProposalPOLRound # msg.ProposalPOLRound THEN ps
    ELSE [ps EXCEPT !.ProposalPOL = msg.ProposalPOL]

\* ApplyHasVoteMessage.
ApplyHasVoteMessage(ps, msg) ==
    IF ps.Height # msg.Height THEN ps
    ELSE setHasVote(ps, msg.Height, msg.Round, msg.Type, msg.Index)

\* ApplyVoteSetBitsMessage.
ApplyVoteSetBitsMessage(ps, msg, ourVotes) ==
    LET field == getVoteBitArray(ps, msg.Height, msg.Round, msg.Type)
    IN  IF field = "PanicSanity" THEN Panicked
        ELSE IF field = "" \/ ps[field].isNil THEN ps
        ELSE IF ourVotes.isNil
        THEN SetBitArray(ps, field, BitArrayUpdate(ps[field], msg.Votes))
        ELSE SetBitArray(ps, field,
                 BitArrayUpdate(ps[field],
                                BitArrayOr(BitArraySub(ps[field], ourVotes),
                                           msg.Votes)))

\* What a step of a call of Receive leaves: the peer state, the messages
\* it put on peerMsgQueue, the messages it handed to TrySend and the
\* statement the call makes next, "" when it has returned and "panic" when
\* it has panicked.  The round state of the node does not change here, so
\* what a branch reads under cs.mtx is read in the step that uses it.
Received(ps, queued, sent) ==
    [ps |-> ps, queued |-> queued, sent |-> sent, pc |-> ""]

\* The end of a branch of Receive that calls a method of the peer state
\* and then queues or sends: a panic of the method leaves the peer state
\* as it was before the call, and nothing is queued or sent.
ReceivedOrPanic(ps, applied, queued, sent) ==
    IF IsPanic(applied) THEN [Received(ps, <<>>, <<>>) EXCEPT !.pc = "panic"]
    ELSE Received(applied, queued, sent)

\* The VoteMessage branch of Receive: EnsureVoteBitArrays for the height
\* of the node, EnsureVoteBitArrays for the height before, and SetHasVote
\* with the send to peerMsgQueue, each taking the lock of the peer state
\* for itself.  The validators of the height before are those of the
\* height, so cs.LastCommit.Size() is cs.Validators.Size().
ReceiveVote(g, msg) ==
    LET ps == g.ps
        height == g.rs.Height
        valSize == GossipValidators
        lastCommitSize == GossipValidators
        msgInfo == <<[msg |-> msg, key |-> g.peerKey]>>
    IN  IF g.recv.pc = ""
        THEN [Received(ensureVoteBitArrays(ps, height, valSize), <<>>, <<>>)
                EXCEPT !.pc = "EnsureVoteBitArrays"]
        ELSE IF g.recv.pc = "EnsureVoteBitArrays"
        THEN [Received(ensureVoteBitArrays(ps, height - 1, lastCommitSize),
                       <<>>, <<>>)
                EXCEPT !.pc = "SetHasVote"]
        ELSE ReceivedOrPanic(ps,
                             setHasVote(ps, msg.Height, msg.Round, msg.Type,
                                        msg.ValidatorIndex),
                             msgInfo, <<>>)

\* A Receive that takes every type of message on every channel.
ReceiveAnyChannel(g, chID, msg) ==
    LET rs == g.rs
        ps == g.ps
        msgInfo == <<[msg |-> msg, key |-> g.peerKey]>>
        votesOf(type, round) ==
            IF type = VoteTypePrevote THEN RoundPrevotes(rs, round)
            ELSE RoundPrecommits(rs, round)
    IN  IF msg.type = "Proposal"
        THEN Received(SetHasProposal(ps, msg), msgInfo, <<>>)
        ELSE IF msg.type = "Vote"
        THEN ReceiveVote(g, msg)
        ELSE Received(ps, <<>>, <<>>)

\* Receive of a running reactor, one step of the call at a time.
Receive(g, chID, msg) ==
    LET rs == g.rs
        ps == g.ps
        msgInfo == <<[msg |-> msg, key |-> g.peerKey]>>
        votesOf(type, round) ==
            IF type = VoteTypePrevote THEN RoundPrevotes(rs, round)
            ELSE RoundPrecommits(rs, round)
    IN  IF chID = StateChannel
        THEN IF msg.type = "NewRoundStep"
             THEN Received(ApplyNewRoundStepMessage(ps, msg), <<>>, <<>>)
             ELSE IF msg.type = "CommitStep"
             THEN Received(ApplyCommitStepMessage(ps, msg), <<>>, <<>>)
             ELSE IF msg.type = "HasVote"
             THEN ReceivedOrPanic(ps, ApplyHasVoteMessage(ps, msg), <<>>, <<>>)
             ELSE IF msg.type = "VoteSetMaj23"
             THEN IF rs.Height # msg.Height THEN Received(ps, <<>>, <<>>)
                  ELSE IF ~IsVoteTypeValid(msg.Type)
                  THEN Received(ps, <<>>, <<>>)
                  ELSE Received(ps, <<>>,
                           <<[type |-> "VoteSetBits", Height |-> msg.Height,
                              Round |-> msg.Round, Type |-> msg.Type,
                              BlockID |-> msg.BlockID,
                              Votes |-> BitArrayByBlockID(
                                            votesOf(msg.Type, msg.Round),
                                            msg.BlockID)]>>)
             ELSE Received(ps, <<>>, <<>>)
        ELSE IF chID = DataChannel
        THEN IF msg.type = "Proposal"
             THEN Received(SetHasProposal(ps, msg), msgInfo, <<>>)
             ELSE IF msg.type = "ProposalPOL"
             THEN Received(ApplyProposalPOLMessage(ps, msg), <<>>, <<>>)
             ELSE IF msg.type = "BlockPart"
             THEN Received(SetHasProposalBlockPart(ps, msg.Height, msg.Round,
                                                   msg.Index),
                           msgInfo, <<>>)
             ELSE IF msg.type = "Maj23SignAggr"
             THEN ReceivedOrPanic(ps, SetHasMaj23SignAggr(ps, msg), msgInfo,
                                  <<>>)
             ELSE Received(ps, <<>>, <<>>)
        ELSE IF chID = VoteChannel
        THEN IF msg.type = "Vote"
             THEN ReceiveVote(g, msg)
             ELSE Received(ps, <<>>, <<>>)
        ELSE IF chID = VoteSetBitsChannel
        THEN IF msg.type = "VoteSetBits"
             THEN IF rs.Height = msg.Height
                  THEN IF ~IsVoteTypeValid(msg.Type)
                       THEN Received(ps, <<>>, <<>>)
                       ELSE ReceivedOrPanic(
                                ps,
                                ApplyVoteSetBitsMessage(
                                    ps, msg,
                                    BitArrayByBlockID(votesOf(msg.Type, msg.Round),
                                                      msg.BlockID)),
                                <<>>, <<>>)
                  ELSE ReceivedOrPanic(
                           ps, ApplyVoteSetBitsMessage(ps, msg, NilBitArray),
                           <<>>, <<>>)
             ELSE Received(ps, <<>>, <<>>)
        ELSE Received(ps, <<>>, <<>>)

\* The messages that carry a vote type, with a type byte that is neither
\* prevote nor precommit.
BadTypeMessages ==
    {[type |-> "HasVote", Height |-> GossipHeight, Round |-> 1,
      Type |-> VoteTypeInvalid, Index |-> 0],
     [type |-> "VoteSetMaj23", Height |-> GossipHeight, Round |-> 1,
      Type |-> VoteTypeInvalid, BlockID |-> GossipHeader.Hash],
     [type |-> "Maj23SignAggr", Height |-> GossipHeight, Round |-> 1,
      Type |-> VoteTypeInvalid],
     [type |-> "Vote", Height |-> GossipHeight, Round |-> 1,
      Type |-> VoteTypeInvalid, ValidatorIndex |-> 1],
     [type |-> "VoteSetBits", Height |-> GossipHeight - 1, Round |-> 0,
      Type |-> VoteTypeInvalid, BlockID |-> GossipHeader.Hash,
      Votes |-> NewBitArray(<<TRUE, TRUE>>)],
     [type |-> "VoteSetBits", Height |-> GossipHeight, Round |-> 1,
      Type |-> VoteTypeInvalid, BlockID |-> GossipHeader.Hash,
      Votes |-> NewBitArray(<<TRUE, TRUE>>)]}

\* The messages of the peer, one or two of every type; the bitmaps the
\* peer puts into its messages are shorter and longer than the validator
\* set.
PeerMessages ==
    {[type |-> "NewRoundStep", Height |-> GossipHeight, Round |-> 1,
      Step |-> RoundStepPrevote, LastCommitRound |-> 0],
     [type |-> "CommitStep", Height |-> GossipHeight,
      BlockPartsHeader |-> GossipHeader,
      BlockParts |-> AllBits(GossipParts, TRUE)],
     [type |-> "HasVote", Height |-> GossipHeight, Round |-> 1,
      Type |-> VoteTypePrecommit, Index |-> 0],
     [type |-> "VoteSetMaj23", Height |-> GossipHeight, Round |-> 1,
      Type |-> VoteTypePrevote, BlockID |-> GossipHeader.Hash],
     [type |-> "Proposal", isNil |-> FALSE, Height |-> GossipHeight,
      Round |-> 1, POLRound |-> 0, BlockPartsHeader |-> GossipHeader],
     [type |-> "BlockPart", Height |-> GossipHeight, Round |-> 1,
      Index |-> 0],
     [type |-> "Maj23SignAggr", Height |-> GossipHeight, Round |-> 1,
      Type |-> VoteTypePrevote],
     [type |-> "Vote", Height |-> GossipHeight, Round |-> 1,
      Type |-> VoteTypePrevote, ValidatorIndex |-> 1]}
    \cup {[type |-> "ProposalPOL", Height |-> GossipHeight,
           ProposalPOLRound |-> -1, ProposalPOL |-> NewBitArray(<<TRUE>>)],
          [type |-> "ProposalPOL", Height |-> GossipHeight,
           ProposalPOLRound |-> 0,
           ProposalPOL |-> NewBitArray(<<TRUE, FALSE, TRUE>>)]}
    \cup {[type |-> "VoteSetBits", Height |-> GossipHeight - 1, Round |-> 1,
           Type |-> VoteTypePrevote, BlockID |-> GossipHeader.Hash,
           Votes |-> NewBitArray(<<TRUE>>)],
          [type |-> "VoteSetBits", Height |-> GossipHeight, Round |-> 1,
           Type |-> VoteTypePrevote, BlockID |-> GossipHeader.Hash,
           Votes |-> NewBitArray(<<TRUE, FALSE, TRUE>>)]}
    \cup BadTypeMessages

\* The round state of the node: with the proposal and all prevotes.
ReceiveRoundStates ==
    {rs \in LocalRoundStates :
        /\ rs.Prevotes[0].BitArray.Bits[1] /\ ~rs.Precommits[0].BitArray.Bits[1]
        /\ rs.ProposalBlockParts.isNil
        /\ ~rs.Proposal.isNil /\ rs.Proposal.POLRound = 0}

InitReceive ==
    /\ valSet = NewValidatorSet(ConsensusValidators)
    /\ ret = NoRet
    /\ ccdb = <<>>
    /\ chains = <<>>
    /\ nops = 0
    /\ cs = <<>>
    /\ proposals = {}
    /\ aggrs = {}
    /\ sync = 0
    /\ hs = <<>>
    /\ rp = <<>>
    /\ bc = <<>>
    /\ hst = <<>>
    /\ ex = <<>>
    /\ svc = <<>>
    /\ \E rs \in ReceiveRoundStates : gp = AddPeer(rs, PeerKey)

\* The peer sends up to MaxReceives messages in a behaviour.
MaxReceives == 4

\* The channel a type of message belongs to.
ChannelOf(type) ==
    IF type \in {"NewRoundStep", "CommitStep", "HasVote", "VoteSetMaj23"}
    THEN StateChannel
    ELSE IF type \in {"Proposal", "ProposalPOL", "BlockPart", "Maj23SignAggr"}
    THEN DataChannel
    ELSE IF type = "Vote" THEN VoteChannel
    ELSE VoteSetBitsChannel

\* Receive of a message of the peer: the connection calls Receive, which
\* returns at once when the reactor is not running, or the call under way
\* makes its next step.  A message of any type comes on any channel, the
\* four of the reactor and one it does not know.  A call that panicked
\* is the last of the connection.
DoReceive ==
    /\ gp.recv.pc # "panic"
    /\ \E msg \in PeerMessages :
        \E chID \in Channels :
          LET r == Receive(gp, chID, msg)
          IN  /\ IF gp.recv.pc = ""
                 THEN gp.conRRunning /\ gp.received < MaxReceives
                 ELSE chID = gp.recv.chID /\ msg = gp.recv.msg
              /\ gp' = [gp EXCEPT
                          !.ps = r.ps,
                          !.received = IF gp.recv.pc = "" THEN @ + 1 ELSE @,
                          !.recv = IF r.pc = "" THEN NoReceive
                                   ELSE [pc |-> r.pc, chID |-> chID,
                                         msg |-> msg],
                          !.last = [routine |-> "Receive", chID |-> chID,
                                    msg |-> msg, before |-> gp.ps,
                                    after |-> r.ps, queued |-> r.queued,
                                    sent |-> r.sent, done |-> r.pc = ""]]
    /\ UNCHANGED <<valSet, ret, nops, cs, proposals, aggrs, sync, hs, rp, bc, hst, ex, svc, ccdb, chains>>

NextReceive ==
    \/ DoReceive
    \/ DoGossipVotes

SpecReceive == InitReceive /\ [][NextReceive]_vars

\* C24 -- messages on the wrong channel are dropped: Receive puts a message
\* on the queue of the consensus state only for a Proposal, a BlockPart or
\* a Maj23SignAggr of the Data channel and a Vote of the Vote channel, and a
\* message on a channel its type does not belong to changes neither the
\* peer state nor the queue.
WrongChannelDropped ==
    gp.last.routine = "Receive" =>
        /\ gp.last.queued # <<>> =>
              /\ gp.last.queued = <<[msg |-> gp.last.msg, key |-> gp.peerKey]>>
              /\ \/ /\ gp.last.chID = DataChannel
                    /\ gp.last.msg.type \in {"Proposal", "BlockPart", "Maj23SignAggr"}
                 \/ /\ gp.last.chID = VoteChannel
                    /\ gp.last.msg.type = "Vote"
        /\ gp.last.chID # ChannelOf(gp.last.msg.type) =>
              /\ gp.last.done
              /\ gp.last.after = gp.last.before
              /\ gp.last.queued = <<>>
              /\ gp.last.sent = <<>>

WrongChannelDroppedWitness ==
    /\ gp.last.routine = "Receive"
    /\ gp.last.chID = StateChannel
    /\ gp.last.msg.type = "Vote"
    /\ gp.last.before.Height = GossipHeight /\ gp.last.before.Round = 1
    /\ ~gp.last.before.Prevotes.isNil
    /\ ~gp.last.before.Prevotes.Bits[2]
    /\ gp.last.after = gp.last.before

\* C25 -- the bitmaps of a peer state are as long as the validator set: each
\* of Prevotes, Precommits, ProposalPOL and CatchupCommit that is not nil
\* has one bit per local validator of the peer's height, whatever messages
\* of the peer were applied.
PeerBitmapsHaveValidatorCount ==
    gp.ps.Height = gp.rs.Height =>
        \A field \in {"Prevotes", "Precommits", "ProposalPOL", "CatchupCommit"} :
            ~gp.ps[field].isNil => Len(gp.ps[field].Bits) = GossipValidators

\* -------------------------------------------------- epochs on block insert
\* updateLocalEpoch and autoStartMining, the callbacks run when a block is
\* inserted.  ex holds the current epoch with its next epoch, the end time
\* stored for the previous epoch, the validator sets as objects (the one
\* stored in the next epoch and the copy of a dry run), the key of the local
\* validator, whether the engine is started, and what the last insertion
\* did.
MaxBlockNumber == 3
MaxEpochNumber == 2
EpochTimes == {1, 2}
EPOCH_NOT_EXIST == "EPOCH_NOT_EXIST"
EPOCH_VOTED_NOT_SAVED == "EPOCH_VOTED_NOT_SAVED"

NilEpoch == [isNil |-> TRUE]

\* The validator sets a next epoch is proposed with.
EpochValidators ==
    {NewValidatorSet(<<NewValidator(1, 10)>>),
     NewValidatorSet(<<NewValidator(1, 10), NewValidator(2, 10)>>)}

\* Epoch.Bytes: the bytes of a header for an epoch descriptor; no bytes for
\* no descriptor.
EpochBytes(epoch) ==
    IF epoch.isNil THEN <<>>
    ELSE <<epoch.Number, epoch.StartTime, epoch.Validators>>

\* ep.FromBytes: nil for no bytes.
FromBytes(bytes) ==
    IF bytes = <<>> THEN NilEpoch
    ELSE [isNil |-> FALSE, Number |-> bytes[1], StartTime |-> bytes[2],
          Validators |-> bytes[3], Status |-> EPOCH_NOT_EXIST,
          rs |-> "", VoteSet |-> <<>>]

\* NewEpochValidatorVoteSet.
NewEpochValidatorVoteSet == <<>>

\* updateLocalEpoch that takes every later epoch as the next one.
updateLocalEpochAnyLater(e, block) ==
    LET epochInBlock == FromBytes(block.EpochBytes)
    IN  IF block.Number = 0 \/ epochInBlock.isNil THEN e
        ELSE IF epochInBlock.Number > e.current.Number
        THEN [e EXCEPT
                !.current.next =
                    [isNil |-> FALSE, Number |-> epochInBlock.Number,
                     StartTime |-> epochInBlock.StartTime,
                     Status |-> EPOCH_VOTED_NOT_SAVED,
                     rs |-> e.current.rs,
                     VoteSet |-> NewEpochValidatorVoteSet],
                !.heap.stored = epochInBlock.Validators,
                !.saved = @ + 1]
        ELSE e

\* updateLocalEpoch.  The validators of the next epoch are the object
\* "stored" of the heap.
updateLocalEpoch(e, block) ==
    LET epochInBlock == FromBytes(block.EpochBytes)
    IN  IF block.Number = 0 THEN e
        ELSE IF epochInBlock.isNil THEN e
        ELSE IF epochInBlock.Number = e.current.Number + 1
        THEN [e EXCEPT
                !.current.next =
                    [isNil |-> FALSE, Number |-> epochInBlock.Number,
                     StartTime |-> epochInBlock.StartTime,
                     Status |-> EPOCH_VOTED_NOT_SAVED,
                     rs |-> e.current.rs,
                     VoteSet |-> NewEpochValidatorVoteSet],
                !.heap.stored = epochInBlock.Validators,
                !.saved = @ + 1]
        ELSE IF epochInBlock.Number = e.current.Number
        THEN [e EXCEPT
                !.current.StartTime = epochInBlock.StartTime,
                !.saved = @ + 1,
                !.prevEndTime = IF e.current.Number > 0
                                THEN epochInBlock.StartTime ELSE @]
        ELSE e

\* ValidatorSet.Copy: a new object with copies of the validators.
CopyShared(heap, ref) == [heap |-> heap, ref |-> ref]
Copy(heap, ref) == [heap |-> [heap EXCEPT !.copy = heap[ref]], ref |-> "copy"]

\* DryRunUpdateEpochValidatorSet: the votes applied to the validator set
\* object, a vote of amount 0 removing the validator.
RECURSIVE DryRunUpdateEpochValidatorSet(_, _, _)
DryRunUpdateEpochValidatorSet(heap, ref, voteSet) ==
    IF voteSet = <<>> THEN heap
    ELSE LET v == Head(voteSet)
             vs == heap[ref]
             next == IF v.Amount = 0 THEN Remove(vs, v.Address).vs
                     ELSE IF HasAddress(vs, v.Address)
                     THEN Update(vs, NewValidator(v.Address, v.Amount)).vs
                     ELSE Add(vs, NewValidator(v.Address, v.Amount)).vs
         IN  DryRunUpdateEpochValidatorSet([heap EXCEPT ![ref] = next], ref,
                                           Tail(voteSet))

\* autoStartMining: the state it leaves, whether it posted a
\* StartMiningEvent, and the validators the dry run came to.  It panics on
\* a nil next epoch.
autoStartMining(e, block) ==
    IF block.Number # e.current.RevealVoteEndHeight + 1
    THEN [e |-> e, posted |-> FALSE, out |-> "ok", dry |-> {}]
    ELSE IF e.current.next.isNil
    THEN [e |-> e, posted |-> FALSE, out |-> "panic", dry |-> {}]
    ELSE LET nextValidators == Copy(e.heap, "stored")
             heap == DryRunUpdateEpochValidatorSet(nextValidators.heap,
                                                   nextValidators.ref,
                                                   e.current.next.VoteSet)
         IN  [e |-> [e EXCEPT !.heap = heap],
              posted |-> HasAddress(heap[nextValidators.ref], e.local)
                         /\ ~e.started,
              out |-> "ok",
              dry |-> {heap[nextValidators.ref]}]

NoInsert ==
    [op |-> "", block |-> [Number |-> 0, EpochBytes |-> <<>>],
     posted |-> FALSE, out |-> "ok", dry |-> {}]

\* The votes of the reveal-vote stage.
EpochVotes == {[Address |-> a, Amount |-> p] : a \in 1..3, p \in {0, 10}}

InitEpoch ==
    /\ valSet = NewValidatorSet(ConsensusValidators)
    /\ ret = NoRet
    /\ ccdb = <<>>
    /\ chains = <<>>
    /\ nops = 0
    /\ cs = <<>>
    /\ proposals = {}
    /\ aggrs = {}
    /\ sync = 0
    /\ hs = <<>>
    /\ rp = <<>>
    /\ bc = <<>>
    /\ gp = <<>>
    /\ hst = <<>>
    /\ svc = <<>>
    /\ \E number \in 0..1, local \in 1..3, started \in BOOLEAN :
          ex = [current |-> [Number |-> number, StartTime |-> 1,
                             RevealVoteEndHeight |-> 1, rs |-> "rewardScheme",
                             next |-> NilEpoch],
                heap |-> [stored |-> NewValidatorSet(<<NewValidator(1, 10)>>),
                          copy |-> NewValidatorSet(<<NewValidator(1, 10)>>)],
                prevEndTime |-> 1, saved |-> 0, local |-> local,
                started |-> started, height |-> 0,
                pre |-> <<>>, mid |-> <<>>, last |-> NoInsert]

\* A block is inserted: the callbacks run in the order they were
\* registered in.
DoInsertEpochBlock ==
    /\ ex.last.out = "ok"
    /\ ex.height < MaxBlockNumber
    /\ \E epoch \in {NilEpoch} \cup
                   {[isNil |-> FALSE, Number |-> n, StartTime |-> t,
                     Validators |-> vs] :
                       n \in 0..MaxEpochNumber, t \in EpochTimes,
                       vs \in EpochValidators} :
          LET block == [Number |-> ex.height + 1,
                        EpochBytes |-> EpochBytes(epoch)]
              e0 == [ex EXCEPT !.height = block.Number, !.saved = 0,
                               !.pre = <<>>, !.mid = <<>>, !.last = NoInsert]
              e1 == updateLocalEpoch(e0, block)
              r == autoStartMining(e1, block)
          IN  ex' = [r.e EXCEPT
                       !.pre = <<[current |-> ex.current,
                                  stored |-> ex.heap.stored,
                                  prevEndTime |-> ex.prevEndTime,
                                  started |-> ex.started]>>,
                       !.mid = <<[current |-> e1.current,
                                  stored |-> e1.heap.stored]>>,
                       !.last = [op |-> "InsertBlock", block |-> block,
                                 posted |-> r.posted, out |-> r.out,
                                 dry |-> r.dry]]
    /\ UNCHANGED <<valSet, ret, nops, cs, proposals, aggrs, sync, hs, rp, bc, gp, hst, svc, ccdb, chains>>

\* A vote of the reveal-vote stage reaches the vote set of the next epoch.
DoEpochVote ==
    /\ ex.last.out = "ok"
    /\ ~ex.current.next.isNil
    /\ Len(ex.current.next.VoteSet) < 1
    /\ \E v \in EpochVotes :
          ex' = [ex EXCEPT !.current.next.VoteSet = Append(@, v),
                           !.pre = <<>>, !.mid = <<>>, !.last = NoInsert]
    /\ UNCHANGED <<valSet, ret, nops, cs, proposals, aggrs, sync, hs, rp, bc, gp, hst, svc, ccdb, chains>>

NextEpoch ==
    \/ DoInsertEpochBlock
    \/ DoEpochVote

SpecEpoch == InitEpoch /\ [][NextEpoch]_vars

\* C26 -- updateLocalEpoch on a block of number above 0: the epoch
\* embedded in the header becomes the next epoch of the current one, with
\* status EPOCH_VOTED_NOT_SAVED, exactly when its number is the current
\* number plus one; with the current number only the start time of the
\* current epoch and the end time of the epoch before change; with any
\* other number, or no embedded epoch, the current epoch and its next epoch
\* stay as they were.
UpdateLocalEpochInstallsNext ==
    ex.last.op = "InsertBlock" =>
        LET pre == ex.pre[1]
            mid == ex.mid[1]
            epochInBlock == FromBytes(ex.last.block.EpochBytes)
        IN  IF ~epochInBlock.isNil /\ epochInBlock.Number = pre.current.Number + 1
            THEN /\ ~mid.current.next.isNil
                 /\ mid.current.next.Number = epochInBlock.Number
                 /\ mid.current.next.StartTime = epochInBlock.StartTime
                 /\ mid.current.next.Status = EPOCH_VOTED_NOT_SAVED
                 /\ mid.stored = epochInBlock.Validators
                 /\ [mid.current EXCEPT !.next = pre.current.next] = pre.current
                 /\ ex.prevEndTime = pre.prevEndTime
            ELSE IF ~epochInBlock.isNil /\ epochInBlock.Number = pre.current.Number
            THEN /\ mid.current = [pre.current EXCEPT
                                     !.StartTime = epochInBlock.StartTime]
                 /\ mid.stored = pre.stored
                 /\ ex.prevEndTime = IF pre.current.Number > 0
                                     THEN epochInBlock.StartTime
                                     ELSE pre.prevEndTime
            ELSE /\ mid.current = pre.current
                 /\ mid.stored = pre.stored
                 /\ ex.prevEndTime = pre.prevEndTime

UpdateLocalEpochInstallsNextWitness ==
    /\ ex.last.op = "InsertBlock"
    /\ ex.last.block.Number = 2
    /\ ex.pre[1].current.Number = 1
    /\ ~ex.pre[1].current.next.isNil
    /\ ex.pre[1].current.next.VoteSet # <<>>
    /\ Len(ex.pre[1].stored.Validators) = 1
    /\ ~ex.current.next.isNil
    /\ ex.current.next.Number = 2
    /\ ex.current.next.StartTime = 2
    /\ ex.current.next.Status = EPOCH_VOTED_NOT_SAVED
    /\ ex.current.next.VoteSet = <<>>
    /\ Len(ex.mid[1].stored.Validators) = 2

\* C27 -- autoStartMining posts a StartMiningEvent only for the block of
\* number RevealVoteEndHeight + 1, when the local validator is in the
\* validator set the dry run came to and the engine is not started; and
\* the dry run leaves the validator set stored in the next epoch as it
\* was.
StartMiningOnlyAfterReveal ==
    ex.last.op = "InsertBlock" =>
        /\ ex.last.posted =>
              /\ ex.last.block.Number = ex.current.RevealVoteEndHeight + 1
              /\ \E vs \in ex.last.dry : HasAddress(vs, ex.local)
              /\ ~ex.pre[1].started
        /\ ex.heap.stored = ex.mid[1].stored
        /\ ex.current = ex.mid[1].current

StartMiningOnlyAfterRevealWitness ==
    /\ ex.last.op = "InsertBlock"
    /\ ex.last.posted
    /\ ex.last.block.Number = 2
    /\ ex.local = 2
    /\ ~HasAddress(ex.heap.stored, 2)
    /\ \E vs \in ex.last.dry : HasAddress(vs, 2)

\* ------------------------------------------------------------- BaseService
\* BaseService of go-common: Start, Stop and Reset over the atomic flags
\* started and stopped.  svc holds the two flags, the Quit channel (how
\* often the channel of this generation was closed), the position of every
\* caller inside its call, and what happened since the last Reset: the calls
\* of OnStart and OnStop, the errors of OnStart, the calls of Stop that
\* returned true and the calls that returned false.
NumCallers == 3
MaxCalls == 5
MaxResets == 1
Callers == 1..NumCallers

\* atomic.CompareAndSwapUint32.
CompareAndSwapUint32(val, old, new) ==
    IF val = old THEN [val |-> new, ok |-> TRUE] ELSE [val |-> val, ok |-> FALSE]

StartPcs == {"Start", "LoadStopped", "OnStart", "StoreStarted"}
StopPcs == {"Stop", "OnStop", "CloseQuit"}
ResetPcs == {"Reset", "ResetStarted", "MakeQuit", "OnReset"}

\* What bs.impl.OnReset() can do: return nil or an error when the service
\* overrides it, and panic in PanicSanity when it is BaseService.OnReset.
OnResetResults == {"nil", "error", "panic"}

\* What a call returned: Start returns (result, err), Stop and Reset a
\* result.
Returned(op, result, err) == [op |-> op, result |-> result, err |-> err]

\* A caller goes back to idle with the call's result counted.  Start
\* returns an error only after the store of started.
Return(s, p, result) ==
    [s EXCEPT !.pc[p] = "idle",
              !.after[p] = FALSE,
              !.rejected = IF result THEN @ ELSE @ + 1,
              !.last = Returned(IF s.pc[p] \in StartPcs THEN "Start" ELSE "Stop",
                                result, s.pc[p] = "StoreStarted")]

\* Start that calls OnStart whatever the flag held.
StartNoSwap(s, p, err) ==
    IF s.pc[p] = "Start"
    THEN [s EXCEPT !.started = 1, !.pc[p] = "OnStart"]
    ELSE IF s.pc[p] = "OnStart"
    THEN IF err
         THEN [s EXCEPT !.onStart = @ + 1, !.errs = @ + 1,
                        !.pc[p] = "StoreStarted"]
         ELSE Return([s EXCEPT !.onStart = @ + 1], p, TRUE)
    ELSE Return([s EXCEPT !.started = 0], p, FALSE)

\* Start that leaves started set after an error of OnStart.
StartKeepStarted(s, p, err) ==
    IF s.pc[p] = "Start"
    THEN LET swap == CompareAndSwapUint32(s.started, 0, 1)
         IN  IF swap.ok
             THEN [s EXCEPT !.started = swap.val, !.pc[p] = "LoadStopped"]
             ELSE Return(s, p, FALSE)
    ELSE IF s.pc[p] = "LoadStopped"
    THEN IF s.stopped = 1
         THEN Return(s, p, FALSE)
         ELSE [s EXCEPT !.pc[p] = "OnStart"]
    ELSE IF s.pc[p] = "OnStart"
    THEN IF err
         THEN [s EXCEPT !.onStart = @ + 1, !.errs = @ + 1,
                        !.pc[p] = "StoreStarted"]
         ELSE Return([s EXCEPT !.onStart = @ + 1], p, TRUE)
    ELSE Return(s, p, FALSE)

\* BaseService.Start, one atomic operation or one call of the
\* implementation at a time: the swap of started, the load of stopped
\* before OnStart, OnStart, and the store of started after an error.
Start(s, p, err) ==
    IF s.pc[p] = "Start"
    THEN LET swap == CompareAndSwapUint32(s.started, 0, 1)
         IN  IF swap.ok
             THEN [s EXCEPT !.started = swap.val, !.pc[p] = "LoadStopped"]
             ELSE Return(s, p, FALSE)
    ELSE IF s.pc[p] = "LoadStopped"
    THEN IF s.stopped = 1
         THEN Return(s, p, FALSE)
         ELSE [s EXCEPT !.pc[p] = "OnStart"]
    ELSE IF s.pc[p] = "OnStart"
    THEN IF err
         THEN [s EXCEPT !.onStart = @ + 1, !.errs = @ + 1,
                        !.pc[p] = "StoreStarted"]
         ELSE Return([s EXCEPT !.onStart = @ + 1], p, TRUE)
    ELSE Return([s EXCEPT !.started = 0], p, FALSE)

\* BaseService.Stop: the swap of stopped, OnStop, and close(Quit) with the
\* return.  Closing a closed channel panics.
Stop(s, p) ==
    IF s.pc[p] = "Stop"
    THEN LET swap == CompareAndSwapUint32(s.stopped, 0, 1)
         IN  IF swap.ok
             THEN [s EXCEPT !.stopped = swap.val, !.pc[p] = "OnStop"]
             ELSE Return(s, p, FALSE)
    ELSE IF s.pc[p] = "OnStop"
    THEN [s EXCEPT !.onStop = @ + 1, !.pc[p] = "CloseQuit"]
    ELSE IF s.quitClosed
         THEN [s EXCEPT !.panic = TRUE, !.pc[p] = "idle"]
         ELSE [Return(s, p, TRUE) EXCEPT !.quitClosed = TRUE,
                                         !.closes = @ + 1,
                                         !.stops = @ + 1]

\* What the swap of stopped in Reset starts: the counts of what happened
\* since the last Reset begin again.
ResetCounts(s) ==
    [s EXCEPT !.resets = @ + 1,
              !.onStart = 0, !.onStop = 0, !.errs = 0,
              !.closes = 0, !.stops = 0, !.rejected = 0,
              !.overlap = FALSE,
              !.after = [q \in Callers |-> FALSE]]

\* Reset that clears the flags of a service that is not stopped.
ResetAlways(s, p, out) ==
    IF s.pc[p] = "Reset"
    THEN [ResetCounts(s) EXCEPT !.stopped = 0, !.pc[p] = "ResetStarted"]
    ELSE IF s.pc[p] = "ResetStarted"
    THEN [s EXCEPT !.started = CompareAndSwapUint32(s.started, 1, 0).val,
                   !.pc[p] = "MakeQuit"]
    ELSE IF s.pc[p] = "MakeQuit"
    THEN [s EXCEPT !.quitClosed = FALSE, !.pc[p] = "OnReset"]
    ELSE IF out = "panic"
    THEN [s EXCEPT !.pc[p] = "idle", !.resetPanic = TRUE,
                   !.last = Returned("Reset: panic", FALSE, FALSE)]
    ELSE [s EXCEPT !.pc[p] = "idle",
                   !.last = Returned("Reset", TRUE, out = "error")]

\* BaseService.Reset, one atomic operation, one assignment or one call of
\* the implementation at a time: the swap of stopped, the swap of started,
\* the new Quit channel, and OnReset, whose error Reset returns with true
\* and whose panic ends the call.
Reset(s, p, out) ==
    IF s.pc[p] = "Reset"
    THEN LET swap == CompareAndSwapUint32(s.stopped, 1, 0)
         IN  IF swap.ok
             THEN [ResetCounts(s) EXCEPT !.stopped = swap.val,
                                         !.pc[p] = "ResetStarted"]
             ELSE [s EXCEPT !.pc[p] = "idle",
                            !.last = Returned("Reset", FALSE, FALSE)]
    ELSE IF s.pc[p] = "ResetStarted"
    THEN [s EXCEPT !.started = CompareAndSwapUint32(s.started, 1, 0).val,
                   !.pc[p] = "MakeQuit"]
    ELSE IF s.pc[p] = "MakeQuit"
    THEN [s EXCEPT !.quitClosed = FALSE, !.pc[p] = "OnReset"]
    ELSE IF out = "panic"
    THEN [s EXCEPT !.pc[p] = "idle", !.resetPanic = TRUE,
                   !.last = Returned("Reset: panic", FALSE, FALSE)]
    ELSE [s EXCEPT !.pc[p] = "idle",
                   !.last = Returned("Reset", TRUE, out = "error")]

\* BaseService.IsRunning.
IsRunning(s) == s.started = 1 /\ s.stopped = 0

\* NewBaseService.
InitService ==
    /\ valSet = NewValidatorSet(ConsensusValidators)
    /\ ret = NoRet
    /\ ccdb = <<>>
    /\ chains = <<>>
    /\ nops = 0
    /\ cs = <<>>
    /\ proposals = {}
    /\ aggrs = {}
    /\ sync = 0
    /\ hs = <<>>
    /\ rp = <<>>
    /\ bc = <<>>
    /\ gp = <<>>
    /\ hst = <<>>
    /\ ex = <<>>
    /\ svc = [started |-> 0, stopped |-> 0, quitClosed |-> FALSE,
              pc |-> [p \in Callers |-> "idle"],
              calls |-> 0, resets |-> 0,
              onStart |-> 0, onStop |-> 0, errs |-> 0,
              closes |-> 0, stops |-> 0, rejected |-> 0,
              overlap |-> FALSE, mixed |-> FALSE, panic |-> FALSE,
              resetPanic |-> FALSE,
              after |-> [p \in Callers |-> FALSE],
              last |-> Returned("", FALSE, FALSE)]

\* A goroutine calls Start, Stop or Reset.  overlap: a call was made while
\* another was running; mixed: a Reset ran at the same time as a Start or a
\* Stop.
DoCall ==
    /\ svc.calls < MaxCalls
    /\ \E p \in Callers, op \in {"Start", "Stop", "Reset"} :
          /\ svc.pc[p] = "idle"
          /\ op = "Reset" => svc.resets < MaxResets
          /\ svc' = [svc EXCEPT
                       !.pc[p] = op,
                       !.after[p] = op = "Start" /\ svc.stopped = 1,
                       !.calls = IF op = "Reset" THEN @ ELSE @ + 1,
                       !.overlap = @ \/ \E q \in Callers : svc.pc[q] # "idle",
                       !.mixed = @ \/ \E q \in Callers :
                                    IF op = "Reset"
                                    THEN svc.pc[q] \in StartPcs \cup StopPcs
                                    ELSE svc.pc[q] \in ResetPcs]
    /\ UNCHANGED <<valSet, ret, nops, cs, proposals, aggrs, sync, hs, rp, bc, gp, hst, ex, ccdb, chains>>

\* A caller inside Start takes its next step.
DoStart ==
    /\ \E p \in Callers, err \in BOOLEAN :
          /\ svc.pc[p] \in StartPcs
          /\ svc' = Start(svc, p, err)
    /\ UNCHANGED <<valSet, ret, nops, cs, proposals, aggrs, sync, hs, rp, bc, gp, hst, ex, ccdb, chains>>

\* A caller inside Stop takes its next step.
DoStop ==
    /\ \E p \in Callers :
          /\ svc.pc[p] \in StopPcs
          /\ svc' = Stop(svc, p)
    /\ UNCHANGED <<valSet, ret, nops, cs, proposals, aggrs, sync, hs, rp, bc, gp, hst, ex, ccdb, chains>>

\* A caller inside Reset takes its next step.
DoReset ==
    /\ \E p \in Callers, out \in OnResetResults :
          /\ svc.pc[p] \in ResetPcs
          /\ svc.pc[p] # "OnReset" => out = "nil"
          /\ svc' = Reset(svc, p, out)
    /\ UNCHANGED <<valSet, ret, nops, cs, proposals, aggrs, sync, hs, rp, bc, gp, hst, ex, ccdb, chains>>

NextService ==
    \/ DoCall
    \/ DoStart
    \/ DoStop
    \/ DoReset

SpecService == InitService /\ [][NextService]_vars

\* C30 -- between two Resets, that is as long as no Reset has run at the
\* same time as a Start or a Stop, and whatever the interleaving of the
\* calls of Start and of Stop: OnStart is called at most once as long as it
\* returned no error, OnStop is called at most once, and Quit is closed once
\* for every Stop that returned true, never twice.
ServiceCallbacksAtMostOnce ==
    ~svc.mixed =>
        /\ svc.errs = 0 => svc.onStart <= 1
        /\ svc.onStop <= 1
        /\ svc.closes = svc.stops
        /\ svc.closes <= 1
        /\ ~svc.panic

ServiceCallbacksAtMostOnceWitness ==
    /\ \A p \in Callers : svc.pc[p] = "idle"
    /\ ~svc.mixed
    /\ svc.resets = 1
    /\ svc.overlap
    /\ svc.errs = 0
    /\ svc.onStart = 1
    /\ svc.onStop = 1
    /\ svc.closes = 1
    /\ svc.rejected >= 2
    /\ ~IsRunning(svc)

\* C31 -- a Start whose OnStart returned an error returns (false, err) and
\* leaves the service not started, IsRunning false; the next Start to swap
\* the flag, with no Stop in between, gets the flag, reaches OnStart and
\* calls it again.
StartErrorLeavesNotStarted ==
    [][\A p \in Callers :
          /\ (svc.pc[p] = "StoreStarted" /\ svc'.pc[p] = "idle") =>
                /\ svc'.last = Returned("Start", FALSE, TRUE)
                /\ svc'.started = 0
                /\ ~IsRunning(svc')
          /\ (/\ svc.last = Returned("Start", FALSE, TRUE)
              /\ svc.pc[p] = "Start" /\ svc'.pc[p] # "Start"
              /\ \A q \in Callers \ {p} :
                    svc.pc[q] \notin StartPcs \ {"Start"}) =>
                svc'.pc[p] = "LoadStopped"
          /\ (/\ svc.pc[p] = "LoadStopped" /\ svc'.pc[p] # "LoadStopped"
              /\ svc.stopped = 0) =>
                svc'.pc[p] = "OnStart"
          /\ (svc.pc[p] = "OnStart" /\ svc'.pc[p] # "OnStart") =>
                svc'.onStart = svc.onStart + 1]_vars

StartErrorLeavesNotStartedWitness ==
    /\ svc.errs = 1
    /\ svc.onStart = 2
    /\ svc.last = Returned("Start", TRUE, FALSE)
    /\ IsRunning(svc)
    /\ \A p \in Callers : svc.pc[p] = "idle"

\* C32 -- Stop needs no Start before it: on a service that is not stopped
\* it runs OnStop and, no Reset running beside it, returns true.  While
\* stopped is set IsRunning is false, and a Start called then returns
\* (false, nil) and never reaches OnStart; stopped is cleared only by the
\* swap of a Reset, which is the only way for a Reset to return true, and
\* that Reset clears started and makes a new Quit.  Reset on a service that
\* is not stopped returns false and changes nothing.
StoppedUntilReset ==
    [][/\ \A p \in Callers :
             /\ (/\ svc.pc[p] = "Stop" /\ svc'.pc[p] # "Stop"
                 /\ svc.stopped = 0) =>
                   svc'.pc[p] = "OnStop" /\ svc'.stopped = 1
             /\ (svc.pc[p] = "OnStop" /\ svc'.pc[p] # "OnStop") =>
                   svc'.pc[p] = "CloseQuit" /\ svc'.onStop = svc.onStop + 1
             /\ (/\ svc.pc[p] = "CloseQuit" /\ svc'.pc[p] # "CloseQuit"
                 /\ ~svc.mixed) =>
                   svc'.last = Returned("Stop", TRUE, FALSE) /\ ~svc'.panic
             /\ (/\ svc.after[p] /\ svc.pc[p] \in StartPcs
                 /\ svc'.pc[p] # svc.pc[p]) =>
                   /\ svc'.pc[p] \in {"LoadStopped", "idle"}
                   /\ svc'.onStart = svc.onStart
                   /\ svc'.pc[p] = "idle" =>
                         svc'.last = Returned("Start", FALSE, FALSE)
             /\ (svc.pc[p] = "Reset" /\ svc'.pc[p] # "Reset") =>
                   IF svc.stopped = 1
                   THEN /\ svc'.pc[p] = "ResetStarted"
                        /\ svc'.stopped = 0
                        /\ svc'.resets = svc.resets + 1
                   ELSE svc' = [svc EXCEPT
                                  !.pc[p] = "idle",
                                  !.last = Returned("Reset", FALSE, FALSE)]
             /\ (svc.pc[p] = "ResetStarted" /\ svc'.pc[p] # "ResetStarted") =>
                   svc'.pc[p] = "MakeQuit" /\ svc'.started = 0
             /\ (svc.pc[p] = "MakeQuit" /\ svc'.pc[p] # "MakeQuit") =>
                   svc'.pc[p] = "OnReset" /\ ~svc'.quitClosed
             /\ (/\ svc.pc[p] \in ResetPcs /\ svc'.pc[p] = "idle"
                 /\ svc'.last.result) =>
                   svc.pc[p] = "OnReset" /\ svc'.last.op = "Reset"
       /\ svc'.stopped = 1 => ~IsRunning(svc')
       /\ (svc.stopped = 1 /\ svc'.stopped = 0) =>
             \E p \in Callers :
                svc.pc[p] = "Reset" /\ svc'.pc[p] = "ResetStarted"
      ]_vars

StoppedUntilResetWitness ==
    /\ \A p \in Callers : svc.pc[p] = "idle"
    /\ svc.resets = 0
    /\ ~svc.mixed
    /\ svc.onStart = 0
    /\ svc.onStop = 1
    /\ svc.stops = 1
    /\ svc.started = 1
    /\ svc.stopped = 1
    /\ svc.rejected = 1
    /\ svc.last = Returned("Start", FALSE, FALSE)

\* C33 -- a vote picked for the peer whose Send failed stays eligible:
\* after the turn of gossipVotesRoutine its bit in the bitmap of the peer
\* is not set, so that a later turn picks it again.
FailedVoteStaysEligible ==
    (gp.last.routine = "gossipVotesRoutine" /\ gp.last.done
     /\ ~gp.last.returned
     /\ gp.last.after.Height = gp.last.prs.Height
     /\ gp.last.after.Round = gp.last.prs.Round) =>
        \A i \in DOMAIN gp.last.sent :
            LET m == gp.last.sent[i]
            IN  (m.msg = "Vote" /\ ~m.ok) =>
                    LET field == getVoteBitArray(gp.last.after, m.Height,
                                                 m.Round, m.Type)
                    IN  /\ field # ""
                        /\ ~BitArrayGetIndex(gp.last.after[field], m.index)

\* ------------------------------------------------- the position of the peer
\* The NewRoundStep, Proposal and Maj23SignAggr messages of a peer, received while
\* gossipVotesRoutine and gossipDataRoutine send to it.
RoundStepMessages ==
    {[type |-> "NewRoundStep", Height |-> h, Round |-> r, Step |-> st,
      LastCommitRound |-> lcr] :
        h \in {GossipHeight - 1, GossipHeight}, r \in 0..1,
        st \in {RoundStepNewHeight, RoundStepPrevote},
        lcr \in {0}}
SignAggrMessages ==
    {[type |-> "Maj23SignAggr", Height |-> GossipHeight, Round |-> r,
      Type |-> type] :
        r \in 0..1, type \in {VoteTypePrevote, VoteTypePrecommit}}
ProposalMessages ==
    {[type |-> "Proposal", isNil |-> FALSE, Height |-> GossipHeight,
      Round |-> 0, POLRound |-> -1, BlockPartsHeader |-> GossipHeader]}

\* The round state of the node: the proposal with all its parts and all
\* the votes.
PositionRoundStates ==
    {rs \in LocalRoundStates :
        /\ rs.Prevotes[0].BitArray.Bits[1] /\ rs.Precommits[0].BitArray.Bits[1]
        /\ ~rs.ProposalBlockParts.isNil /\ rs.ProposalBlockParts.BitArray.Bits[2]
        /\ ~rs.Proposal.isNil /\ rs.Proposal.POLRound = 0}

InitPosition ==
    /\ valSet = NewValidatorSet(ConsensusValidators)
    /\ ret = NoRet
    /\ ccdb = <<>>
    /\ chains = <<>>
    /\ nops = 0
    /\ cs = <<>>
    /\ proposals = {}
    /\ aggrs = {}
    /\ sync = 0
    /\ hs = <<>>
    /\ rp = <<>>
    /\ bc = <<>>
    /\ hst = <<>>
    /\ ex = <<>>
    /\ svc = <<>>
    /\ \E rs \in PositionRoundStates : gp = AddPeer(rs, PeerKey)

\* Receive of a NewRoundStepMessage, a ProposalMessage or a
\* Maj23SignAggrMessage of the peer on the channel of its type.
DoReceivePosition ==
    /\ gp.conRRunning
    /\ \E msg \in RoundStepMessages \cup ProposalMessages \cup SignAggrMessages :
          LET chID == ChannelOf(msg.type)
              r == Receive(gp, chID, msg)
          IN  gp' = [gp EXCEPT
                       !.ps = r.ps,
                       !.last = [routine |-> "Receive", chID |-> chID,
                                 msg |-> msg, before |-> gp.ps,
                                 after |-> r.ps, queued |-> r.queued,
                                 sent |-> r.sent, done |-> TRUE]]
    /\ UNCHANGED <<valSet, ret, nops, cs, proposals, aggrs, sync, hs, rp, bc, hst, ex, svc, ccdb, chains>>

NextPosition ==
    \/ DoReceivePosition
    \/ DoGossipVotes
    \/ DoGossipData

SpecPosition == InitPosition /\ [][NextPosition]_vars

\* C34 -- the position recorded for the peer never goes backwards: a
\* NewRoundStepMessage changes the peer state only when its (Height, Round,
\* Step) is above the stored one, which then takes the values of the
\* message; a duplicate or an older message changes nothing, and neither
\* does any other message or a turn of a gossip routine change the
\* position.  When the height or the round changes, Proposal, the part
\* header and bitmap, the POL round and bitmap, Prevotes and Precommits are
\* reset.
PeerPositionNeverGoesBack ==
    LET before == gp.last.before
        after == gp.last.after
        msg == gp.last.msg
    IN  IF gp.last.routine = "Receive" /\ msg.type = "NewRoundStep"
        THEN IF CompareHRS(msg.Height, msg.Round, msg.Step,
                           before.Height, before.Round, before.Step) <= 0
             THEN after = before
             ELSE /\ after.Height = msg.Height
                  /\ after.Round = msg.Round
                  /\ after.Step = msg.Step
                  /\ CompareHRS(after.Height, after.Round, after.Step,
                                before.Height, before.Round, before.Step) > 0
                  /\ (before.Height # after.Height \/ before.Round # after.Round) =>
                        /\ ~after.Proposal
                        /\ after.ProposalBlockPartsHeader = NoPartSetHeader
                        /\ after.ProposalBlockParts = NilBitArray
                        /\ after.ProposalPOLRound = -1
                        /\ after.ProposalPOL = NilBitArray
                        /\ after.Prevotes = NilBitArray
                        /\ after.Precommits = NilBitArray
        ELSE /\ after.Height = before.Height
             /\ after.Round = before.Round
             /\ after.Step = before.Step

PeerPositionNeverGoesBackWitness ==
    /\ gp.last.routine = "Receive"
    /\ gp.last.msg.type = "NewRoundStep"
    /\ gp.last.before.Height = GossipHeight
    /\ gp.last.before.Round = 0
    /\ gp.last.before.Proposal
    /\ ~gp.last.before.Precommits.isNil
    /\ gp.last.before.CatchupCommitRound = 0
    /\ gp.last.after.Height = GossipHeight
    /\ gp.last.after.Round = 1
    /\ gp.last.after.Precommits = NilBitArray

\* C37 -- the SignAggr flags of the peer state are about the current round
\* of the peer: both are false right after a NewRoundStepMessage moved the
\* peer to another height or round, and a precommit SignAggr of the peer
\* for its height and round sets PrecommitMaj23SignAggr.
SignAggrFlagsOfCurrentRound ==
    LET before == gp.last.before
        after == gp.last.after
        msg == gp.last.msg
    IN  gp.last.routine = "Receive" =>
            /\ (/\ msg.type = "NewRoundStep"
                /\ (after.Height # before.Height \/ after.Round # before.Round)) =>
                  ~after.PrevoteMaj23SignAggr /\ ~after.PrecommitMaj23SignAggr
            /\ (/\ msg.type = "Maj23SignAggr"
                /\ msg.Type = VoteTypePrecommit
                /\ msg.Height = before.Height /\ msg.Round = before.Round) =>
                  after.PrecommitMaj23SignAggr

\* C36 -- VerifyCommit computes the quorum from the current total voting
\* power: on every validator set the writing calls produce it neither
\* crashes on a missing cached total nor uses a total other than the sum of
\* the voting powers of the validators.
VerifyCommitReadsCurrentTotal ==
    ret.op = "VerifyCommit" =>
        /\ ret.err # "panic"
        /\ ret.err \in {"", "insufficient voting power"} =>
              ret.quorum = Quorum(SumPower(valSet.Validators,
                                           Len(valSet.Validators)))

\* C38 -- as stated: ReplayBlocks ends in one of its explicit branches and
\* never at the final PanicSanity("Should never happen"), and with the
\* store one block ahead of the state the last block is applied exactly
\* once through replayBlock, on the real app when the app is at or below
\* the state and on the mock app when the app is at the store.
LastBlockReplayedOnce ==
    hs.out # "" =>
        /\ hs.out # "Should never happen"
        /\ (hs.pre.storeH = hs.pre.stateH + 1 /\ hs.appH <= hs.pre.storeH) =>
              /\ hs.h.applied = <<hs.pre.storeH>>
              /\ hs.h.mockApp = (hs.appH = hs.pre.storeH)

\* C38 -- as the code has it: ReplayBlocks never reaches the final
\* PanicSanity, and with the store one block ahead of the state the last
\* block is applied exactly once through replayBlock, on the real app when
\* the app is at or below the state and on the mock app when the app is at
\* the store, unless a block before it fails in ExecCommitBlock or the
\* saved ABCI responses fail to load: then ReplayBlocks returns the error
\* and the last block is not applied.
LastBlockReplayedOnceUnlessError ==
    hs.out # "" =>
        /\ hs.out # "Should never happen"
        /\ (hs.pre.storeH = hs.pre.stateH + 1 /\ hs.appH <= hs.pre.storeH) =>
              IF \/ hs.pre.failAt \in (hs.appH + 1)..hs.pre.stateH
                 \/ hs.appH = hs.pre.storeH /\ hs.pre.loadErr
              THEN hs.out = "error" /\ hs.h.applied = <<>>
              ELSE /\ hs.h.applied = <<hs.pre.storeH>>
                   /\ hs.h.mockApp = (hs.appH = hs.pre.storeH)

LastBlockReplayedOnceUnlessErrorWitness ==
    /\ hs.out = "return"
    /\ hs.pre.stateH = 2
    /\ hs.pre.storeH = 3
    /\ hs.appH = 3
    /\ hs.h.applied = <<3>>
    /\ hs.h.mockApp
    /\ hs.h.stateH = 3

\* ------------------------------------------------- cross-chain transactions
\* The marks of cross-chain transactions in the chain database
\* (database_util1.go).  ccdb holds the database, a value or none for every
\* key, and what the last call did.
MainChainToChildChain == 0
ChildChainToMainChain == 1
CrossChainTxNotFound == 0
CrossChainTxReady == 1
CrossChainTxAlreadyUsed == 2
CrossChainTxInvalid == 3

CrossChainTxTypes == {MainChainToChildChain, ChildChainToMainChain}
CrossChainAccounts == {"account"}
CrossChainIds == {"child"}
CrossChainTxHashes == {1}

\* calcChildChainTxKey and calcCrossChainTxKey: the prefix followed by the
\* account and the hash in hexadecimal, of fixed width, and the chain id.
calcChildChainTxKey(chainId, txHash) == <<"cc-tx", "", chainId, txHash>>
calcCrossChainTxKey(t, from, chainId, txHash) ==
    IF t = MainChainToChildChain
    THEN <<"cc-to", from, chainId, txHash>>
    ELSE <<"cc-from", from, chainId, txHash>>

CrossChainKeys ==
    {calcCrossChainTxKey(t, from, chainId, txHash) :
        t \in CrossChainTxTypes, from \in CrossChainAccounts,
        chainId \in CrossChainIds, txHash \in CrossChainTxHashes}
ChildChainTxKeys ==
    {calcChildChainTxKey(chainId, txHash) :
        chainId \in CrossChainIds, txHash \in CrossChainTxHashes}

NoValue == [found |-> FALSE, value |-> <<>>]
Value(bytes) == [found |-> TRUE, value |-> bytes]

\* ethdb.Database.Get: an error for a key that is not there.
Get(db, key) ==
    IF db[key].found THEN [value |-> db[key].value, err |-> FALSE]
    ELSE [value |-> <<>>, err |-> TRUE]

\* ethdb.Database.Put: the write, or the error of the database, which
\* leaves the key as it was.
Put(db, key, value, putErr) ==
    IF putErr THEN [db |-> db, err |-> TRUE]
    ELSE [db |-> [db EXCEPT ![key] = Value(value)], err |-> FALSE]

\* ValidateCrossChainTx.
ValidateCrossChainTx(db, t, from, chainId, txHash) ==
    LET got == Get(db, calcCrossChainTxKey(t, from, chainId, txHash))
    IN  IF got.err THEN CrossChainTxNotFound
        ELSE IF Len(got.value) # 1 THEN CrossChainTxInvalid
        ELSE IF /\ got.value[1] # CrossChainTxReady
                /\ got.value[1] # CrossChainTxAlreadyUsed
        THEN CrossChainTxInvalid
        ELSE got.value[1]

\* A call of MarkCrossChainTx or WriteChildChainTransaction under way: its
\* arguments, the database operation it makes next and the state its
\* ValidateCrossChainTx has read.
CrossChainCallers == {"a", "b"}

IdleCall ==
    [pc |-> "idle", op |-> "", t |-> MainChainToChildChain, from |-> "",
     chainId |-> "", txHash |-> 0, used |-> FALSE,
     state |-> CrossChainTxNotFound]

\* A call that has returned err, "" for a nil error.
CallDone(db, call, err) == [db |-> db, call |-> IdleCall, err |-> err, done |-> TRUE]

\* A call that goes on to its next database operation.
CallOn(db, call) == [db |-> db, call |-> call, err |-> "", done |-> FALSE]

\* MarkCrossChainTx, one database operation at a time: with used, the Get
\* of ValidateCrossChainTx and the return on a state that is not Ready;
\* then the Put of the mark.  No lock is held between the two.
MarkCrossChainTx(db, call, putErr) ==
    LET key == calcCrossChainTxKey(call.t, call.from, call.chainId, call.txHash)
        value == IF call.used THEN <<CrossChainTxAlreadyUsed>>
                 ELSE <<CrossChainTxReady>>
        s == ValidateCrossChainTx(db, call.t, call.from, call.chainId,
                                  call.txHash)
        put == Put(db, key, value, putErr)
    IN  IF call.pc = "Validate"
        THEN IF s # CrossChainTxReady
             THEN CallDone(db, [call EXCEPT !.state = s], "inconsistent state")
             ELSE CallOn(db, [call EXCEPT !.pc = "Put", !.state = s])
        ELSE CallDone(put.db, call, IF put.err THEN "db put error" ELSE "")

\* Data of a transaction shorter than the four bytes of a function id:
\* a plain transfer carries none.
ShortData == "data shorter than 4 bytes"

\* The transactions handed to WriteChildChainTransaction: to the chain
\* contract or to another address, with the function its data names.
ChildChainTransactions ==
    {[To |-> to, Function |-> function, Hash |-> txHash] :
        to \in {"pchain", "other"},
        function \in {"WithdrawFromChildChain", "DepositInMainChain", "unknown",
                      ShortData},
        txHash \in CrossChainTxHashes}

\* WriteChildChainTransaction, one database operation at a time: a
\* withdrawal from the child chain is stored, and then marked Ready by
\* MarkCrossChainTx.  data[:4] of a transaction to the chain contract
\* panics on data shorter than four bytes, before anything is written.
WriteChildChainTransaction(db, call, tx, putErr) ==
    IF call.pc = "PutTx"
    THEN IF tx.To # "pchain" THEN CallDone(db, call, "")
         ELSE IF tx.Function = ShortData THEN CallDone(db, call, "panic")
         ELSE IF tx.Function = "unknown" THEN CallDone(db, call, "function type")
         ELSE IF tx.Function # "WithdrawFromChildChain" THEN CallDone(db, call, "")
         ELSE LET put == Put(db, calcChildChainTxKey(call.chainId, tx.Hash),
                             <<"tx", tx.Hash>>, putErr)
              IN  IF put.err THEN CallDone(put.db, call, "db put error")
                  ELSE CallOn(put.db, [call EXCEPT !.pc = "Put"])
    ELSE MarkCrossChainTx(db, call, putErr)

NoCrossChainCall ==
    [op |-> "", t |-> MainChainToChildChain, txHash |-> 0, used |-> FALSE,
     wrote |-> FALSE, state |-> CrossChainTxNotFound, err |-> ""]

\* The database of a node: no marks, or bytes under one key that are no
\* mark.  consumed counts, for every key, the calls of MarkCrossChainTx
\* with used that returned no error since the key was last marked Ready.
InitCrossChain ==
    /\ valSet = NewValidatorSet(ConsensusValidators)
    /\ ret = NoRet
    /\ nops = 0
    /\ cs = <<>>
    /\ proposals = {}
    /\ aggrs = {}
    /\ sync = 0
    /\ hs = <<>>
    /\ rp = <<>>
    /\ bc = <<>>
    /\ gp = <<>>
    /\ hst = <<>>
    /\ ex = <<>>
    /\ svc = <<>>
    /\ chains = <<>>
    /\ \E key \in CrossChainKeys,
          v \in {NoValue, Value(<<>>), Value(<<CrossChainTxInvalid>>),
                 Value(<<CrossChainTxReady, CrossChainTxReady>>)} :
          ccdb = [db |-> [k \in CrossChainKeys \cup ChildChainTxKeys |->
                             IF k = key THEN v ELSE NoValue],
                  calls |-> [p \in CrossChainCallers |-> IdleCall],
                  consumed |-> [k \in CrossChainKeys |-> 0],
                  last |-> NoCrossChainCall]

\* The step of a call: the database and the caller's position after it,
\* and, when the call has returned, what it did.
CrossChainStep(p, call, r, putErr) ==
    LET key == calcCrossChainTxKey(call.t, call.from, call.chainId, call.txHash)
    IN  ccdb' = [ccdb EXCEPT
                   !.db = r.db,
                   !.calls[p] = r.call,
                   !.consumed[key] =
                       IF r.done /\ r.err = "" /\ call.pc = "Put"
                       THEN IF call.used THEN @ + 1 ELSE 0
                       ELSE @,
                   !.last = IF r.done
                            THEN [op |-> call.op, t |-> call.t,
                                  txHash |-> call.txHash, used |-> call.used,
                                  wrote |-> r.db # ccdb.db,
                                  state |-> IF call.pc = "Validate"
                                            THEN r.call.state ELSE call.state,
                                  err |-> r.err]
                            ELSE @]

\* A goroutine calls MarkCrossChainTx, or goes on with its call.
DoMarkCrossChainTx ==
    /\ \E p \in CrossChainCallers, t \in CrossChainTxTypes,
          from \in CrossChainAccounts, chainId \in CrossChainIds,
          txHash \in CrossChainTxHashes, used \in BOOLEAN, putErr \in BOOLEAN :
          LET call == IF ccdb.calls[p].pc = "idle"
                      THEN [pc |-> IF used THEN "Validate" ELSE "Put",
                            op |-> "MarkCrossChainTx", t |-> t, from |-> from,
                            chainId |-> chainId, txHash |-> txHash,
                            used |-> used, state |-> CrossChainTxNotFound]
                      ELSE ccdb.calls[p]
          IN  /\ call.op = "MarkCrossChainTx"
              /\ <<call.t, call.from, call.chainId, call.txHash, call.used>>
                     = <<t, from, chainId, txHash, used>>
              /\ call.pc = "Validate" => ~putErr
              /\ CrossChainStep(p, call, MarkCrossChainTx(ccdb.db, call, putErr),
                                putErr)
    /\ UNCHANGED <<valSet, ret, nops, cs, proposals, aggrs, sync, hs, rp, bc, gp, hst, ex, svc, chains>>

\* A goroutine calls WriteChildChainTransaction, or goes on with its call.
DoWriteChildChainTransaction ==
    /\ \E p \in CrossChainCallers, from \in CrossChainAccounts,
          chainId \in CrossChainIds, tx \in ChildChainTransactions,
          putErr \in BOOLEAN :
          LET call == IF ccdb.calls[p].pc = "idle"
                      THEN [pc |-> "PutTx",
                            op |-> "WriteChildChainTransaction",
                            t |-> ChildChainToMainChain, from |-> from,
                            chainId |-> chainId, txHash |-> tx.Hash,
                            used |-> FALSE, state |-> CrossChainTxNotFound]
                      ELSE ccdb.calls[p]
          IN  /\ call.op = "WriteChildChainTransaction"
              /\ <<call.from, call.chainId, call.txHash>>
                     = <<from, chainId, tx.Hash>>
              /\ call.pc = "Put" => tx.To = "pchain"
                                    /\ tx.Function = "WithdrawFromChildChain"
              /\ CrossChainStep(p, call,
                                WriteChildChainTransaction(ccdb.db, call, tx, putErr),
                                putErr)
    /\ UNCHANGED <<valSet, ret, nops, cs, proposals, aggrs, sync, hs, rp, bc, gp, hst, ex, svc, chains>>

NextCrossChain ==
    \/ DoMarkCrossChainTx
    \/ DoWriteChildChainTransaction

SpecCrossChain == InitCrossChain /\ [][NextCrossChain]_vars

\* C35 -- a call of MarkCrossChainTx with used = true returns no error and
\* stores AlreadyUsed exactly when its ValidateCrossChainTx reported Ready;
\* for a transaction that is NotFound, Invalid or AlreadyUsed it returns an
\* error and leaves the database as it was; and so no mark Ready is
\* consumed by more than one call.
MarkUsedOnlyFromReady ==
    /\ (ccdb.last.op = "MarkCrossChainTx" /\ ccdb.last.used) =>
          IF ccdb.last.state = CrossChainTxReady
          THEN /\ ccdb.last.err = ""
               /\ \E from \in CrossChainAccounts, chainId \in CrossChainIds :
                     ccdb.db[calcCrossChainTxKey(ccdb.last.t, from, chainId,
                                                 ccdb.last.txHash)]
                         = Value(<<CrossChainTxAlreadyUsed>>)
          ELSE ccdb.last.err # "" /\ ~ccdb.last.wrote
    /\ \A key \in CrossChainKeys : ccdb.consumed[key] <= 1

\* C39 -- a cross-chain transaction marked AlreadyUsed never becomes Ready
\* again, whatever calls of MarkCrossChainTx and
\* WriteChildChainTransaction follow.
AlreadyUsedNeverReady ==
    [][\A t \in CrossChainTxTypes, from \in CrossChainAccounts,
          chainId \in CrossChainIds, txHash \in CrossChainTxHashes :
          ValidateCrossChainTx(ccdb.db, t, from, chainId, txHash)
              = CrossChainTxAlreadyUsed =>
          ValidateCrossChainTx(ccdb'.db, t, from, chainId, txHash)
              # CrossChainTxReady]_vars

\* ---------------------------------------------------------------------
\* Pending child chains (go-ethereum/core/chains_info.go).
\* chains = [db, state, mtx, pc, launches, last]: the pending index and the
\* pending chain data in the database, the balances of the state database,
\* pendingChainMtx, each goroutine's position and the last call made.
\* ---------------------------------------------------------------------
MaxPending == 2
MaxLaunchHeight == 2
MaxLaunches == 2

PendingChainIds == {"child1", "child2"}
LaunchCallers == {"g1", "g2"}
NilChainInfo == [isNil |-> TRUE]
JoinedValidatorLists ==
    {<<>>, <<[Address |-> "v1", DepositAmount |-> 1]>>}

CoreChainInfos ==
    {cci \in [isNil : {FALSE}, ChainId : PendingChainIds,
              MinValidators : {1}, MinDepositAmount : {1, 2},
              StartBlock : 0..MaxLaunchHeight, EndBlock : 0..MaxLaunchHeight,
              JoinedValidators : JoinedValidatorLists] :
        cci.StartBlock <= cci.EndBlock}

RECURSIVE TotalDeposit(_)
TotalDeposit(joined) ==
    IF joined = <<>> THEN 0
    ELSE Head(joined).DepositAmount + TotalDeposit(Tail(joined))

\* stateDB.SubLockedBalance and stateDB.AddBalance, on big integers.
SubLockedBalance(state, addr, amount) ==
    [state EXCEPT !.locked[addr] = @ - amount]

AddBalance(state, addr, amount) ==
    [state EXCEPT !.balance[addr] = @ + amount]

\* sync.Mutex.Lock: the caller goes on when the mutex is free and waits
\* otherwise, whoever locked it; a Go mutex is not re-entrant.
MutexFree(c) == c.mtx = "unlocked"

GetPendingChildChainData(db, chainId) == db.data[chainId]

storePendingChildChainData(c, cci, create) ==
    IF ~MutexFree(c) THEN [c EXCEPT !.out = "blocked"]
    ELSE LET stored == [c.db EXCEPT !.data[cci.ChainId] = cci]
             indexed == [stored EXCEPT !.idx =
                            Append(@, [ChainID |-> cci.ChainId,
                                       Start |-> cci.StartBlock,
                                       End |-> cci.EndBlock])]
         IN  [c EXCEPT !.db = IF create THEN indexed ELSE stored,
                       !.out = "returned"]

CreatePendingChildChainData(c, cci) == storePendingChildChainData(c, cci, TRUE)

UpdatePendingChildChainData(c, cci) == storePendingChildChainData(c, cci, FALSE)

DeletePendingChildChainData(c, chainId) ==
    IF ~MutexFree(c) THEN [c EXCEPT !.out = "blocked"]
    ELSE [c EXCEPT !.db.data[chainId] = NilChainInfo, !.out = "returned"]

RECURSIVE refundAll(_, _)
refundAll(state, joined) ==
    IF joined = <<>> THEN state
    ELSE LET jv == Head(joined)
         IN  refundAll(AddBalance(SubLockedBalance(state, jv.Address,
                                                   jv.DepositAmount),
                                  jv.Address, jv.DepositAmount),
                       Tail(joined))

RECURSIVE deductAll(_, _)
deductAll(state, joined) ==
    IF joined = <<>> THEN state
    ELSE LET jv == Head(joined)
         IN  deductAll(SubLockedBalance(state, jv.Address, jv.DepositAmount),
                       Tail(joined))

\* The loop of GetChildChainForLaunch over the index, entry i onwards; it
\* runs with pendingChainMtx held and stops where a call does not return.
RECURSIVE launchLoop(_, _, _, _)
launchLoop(c, idx, i, height) ==
    IF c.out # "running" \/ i > Len(idx) THEN c
    ELSE LET v == idx[i]
             cci == GetPendingChildChainData(c.db, v.ChainID)
         IN  IF v.Start > height
             THEN launchLoop([c EXCEPT !.newPendingIdx = Append(@, v)],
                             idx, i + 1, height)
             ELSE IF cci.isNil
             THEN [c EXCEPT !.out = "panic"]
             ELSE IF v.End < height
             THEN LET refunded == [c EXCEPT !.state =
                                      refundAll(@, cci.JoinedValidators)]
                      deleted == DeletePendingChildChainData(refunded, v.ChainID)
                  IN  IF deleted.out = "returned"
                      THEN launchLoop([deleted EXCEPT !.out = "running"],
                                      idx, i + 1, height)
                      ELSE deleted
             ELSE IF /\ Len(cci.JoinedValidators) >= cci.MinValidators
                     /\ TotalDeposit(cci.JoinedValidators) >= cci.MinDepositAmount
             THEN launchLoop([c EXCEPT !.state =
                                 deductAll(@, cci.JoinedValidators),
                              !.readyForLaunch = Append(@, v.ChainID)],
                             idx, i + 1, height)
             ELSE launchLoop([c EXCEPT !.newPendingIdx = Append(@, v)],
                             idx, i + 1, height)

GetChildChainForLaunch(c, height) ==
    IF ~MutexFree(c) THEN [c EXCEPT !.out = "blocked"]
    ELSE LET idx == c.db.idx
             held == [c EXCEPT !.mtx = "locked", !.out = "running"]
             r == launchLoop(held, idx, 1, height)
         IN  IF Len(idx) = 0 THEN [c EXCEPT !.out = "returned"]
             ELSE IF r.out = "blocked" THEN r
             ELSE IF r.out = "panic" THEN [r EXCEPT !.mtx = "unlocked"]
             ELSE [r EXCEPT !.db.idx = IF Len(r.newPendingIdx) # Len(idx)
                                       THEN r.newPendingIdx ELSE @,
                            !.mtx = "unlocked", !.out = "returned"]

\* The record a call works on: the shared state and the call's locals.
PendingCall ==
    [db |-> chains.db, state |-> chains.state, mtx |-> chains.mtx,
     out |-> "running", newPendingIdx |-> <<>>, readyForLaunch |-> <<>>]

PendingDone(g, op, height, r) ==
    chains' = [chains EXCEPT
                 !.db = r.db, !.state = r.state, !.mtx = r.mtx,
                 !.pc[g] = IF r.out = "blocked" THEN "blocked" ELSE "idle",
                 !.launches = IF op = "GetChildChainForLaunch" THEN @ + 1 ELSE @,
                 !.last = [op |-> op, g |-> g, height |-> height,
                           entered |-> chains.mtx = "unlocked",
                           idx |-> chains.db.idx, out |-> r.out,
                           readyForLaunch |-> r.readyForLaunch]]

InitChains ==
    /\ valSet = NewValidatorSet(ConsensusValidators)
    /\ ret = NoRet
    /\ nops = 0
    /\ cs = <<>>
    /\ proposals = {}
    /\ aggrs = {}
    /\ sync = 0
    /\ hs = <<>>
    /\ rp = <<>>
    /\ bc = <<>>
    /\ gp = <<>>
    /\ hst = <<>>
    /\ ex = <<>>
    /\ svc = <<>>
    /\ ccdb = <<>>
    /\ chains = [db |-> [idx |-> <<>>,
                         data |-> [id \in PendingChainIds |-> NilChainInfo]],
                 state |-> [balance |-> [a \in {"v1"} |-> 0],
                            locked |-> [a \in {"v1"} |-> MaxPending]],
                 mtx |-> "unlocked",
                 pc |-> [g \in LaunchCallers |-> "idle"],
                 launches |-> 0,
                 last |-> [op |-> "", g |-> "", height |-> 0, entered |-> FALSE,
                           idx |-> <<>>, out |-> "", readyForLaunch |-> <<>>]]

DoCreatePendingChildChainData ==
    /\ Len(chains.db.idx) < MaxPending
    /\ \E g \in LaunchCallers, cci \in CoreChainInfos :
          /\ chains.pc[g] = "idle"
          /\ PendingDone(g, "CreatePendingChildChainData", 0,
                         CreatePendingChildChainData(PendingCall, cci))
    /\ UNCHANGED <<valSet, ret, nops, cs, proposals, aggrs, sync, hs, rp, bc, gp, hst, ex, svc, ccdb>>

DoUpdatePendingChildChainData ==
    /\ \E g \in LaunchCallers, cci \in CoreChainInfos :
          /\ chains.pc[g] = "idle"
          /\ ~chains.db.data[cci.ChainId].isNil
          /\ chains.db.data[cci.ChainId] =
                 [cci EXCEPT !.JoinedValidators =
                                 chains.db.data[cci.ChainId].JoinedValidators]
          /\ PendingDone(g, "UpdatePendingChildChainData", 0,
                         UpdatePendingChildChainData(PendingCall, cci))
    /\ UNCHANGED <<valSet, ret, nops, cs, proposals, aggrs, sync, hs, rp, bc, gp, hst, ex, svc, ccdb>>

DoDeletePendingChildChainData ==
    /\ \E g \in LaunchCallers, chainId \in PendingChainIds :
          /\ chains.pc[g] = "idle"
          /\ PendingDone(g, "DeletePendingChildChainData", 0,
                         DeletePendingChildChainData(PendingCall, chainId))
    /\ UNCHANGED <<valSet, ret, nops, cs, proposals, aggrs, sync, hs, rp, bc, gp, hst, ex, svc, ccdb>>

DoGetChildChainForLaunch ==
    /\ chains.launches < MaxLaunches
    /\ \E g \in LaunchCallers, height \in 0..MaxLaunchHeight :
          /\ chains.pc[g] = "idle"
          /\ PendingDone(g, "GetChildChainForLaunch", height,
                         GetChildChainForLaunch(PendingCall, height))
    /\ UNCHANGED <<valSet, ret, nops, cs, proposals, aggrs, sync, hs, rp, bc, gp, hst, ex, svc, ccdb>>

NextChains ==
    \/ DoCreatePendingChildChainData
    \/ DoUpdatePendingChildChainData
    \/ DoDeletePendingChildChainData
    \/ DoGetChildChainForLaunch

SpecChains == InitChains /\ [][NextChains]_vars

\* C40 -- a call of GetChildChainForLaunch that finds pendingChainMtx free
\* returns and leaves the mutex unlocked, whatever the pending index and
\* the height are, an index with an entry whose End < height included; for
\* such an entry the pending data is deleted and the entry leaves the index.
GetChildChainForLaunchReturns ==
    (chains.last.op = "GetChildChainForLaunch" /\ chains.last.entered) =>
        /\ chains.last.out = "returned"
        /\ chains.mtx = "unlocked"
        /\ \A i \in 1..Len(chains.last.idx) :
              chains.last.idx[i].End < chains.last.height =>
                  \A j \in 1..Len(chains.db.idx) :
                      chains.db.idx[j] # chains.last.idx[i]

====
